---- MODULE Spec2Model ----
(***************************************************************************)
(* A model of the literature-digest pipeline: the scoring functions, the   *)
(* frontier combination (duplicate filter), the batched LLM triage stage,  *)
(* and the daily and frontier selection steps.                             *)
(*                                                                         *)
(* Modelling conventions                                                   *)
(*  - A paper is a Python dict: a function from key strings to values.     *)
(*    A key the code never sets is not in the function's domain, and       *)
(*    paper.get(k, d) is Get(paper, k, d).                                 *)
(*  - A Python string is a sequence of one-character strings, "" is <<>>,  *)
(*    and None is the one-element sequence NoneVal.                        *)
(*  - Each paper carries a key "pos", its position in the list a stage     *)
(*    received: it stands for the identity of the dict object.             *)
(*  - The module holds one specification per part of the pipeline; they    *)
(*    share the variables, and each keeps the others' variables fixed.     *)
(***************************************************************************)
EXTENDS Integers, Sequences, FiniteSets, TLC

VARIABLES
    pc,               \* position of the run / of the function being modelled
    papers,           \* the working list `papers`
    triaged,          \* history: the list batch_triage_papers returned
    posted_pmids,     \* the set get_posted_pmids returned
    top_papers,       \* the list handed to the publisher
    pubmed_papers,    \* frontier step 3: fetch_pubmed_details' result
    preprint_papers,  \* frontier step 4: search_longevity_preprints' result
    itp_preprints,    \* frontier step 5: get_itp_preprints' result
    all_papers,       \* history: the concatenation the duplicate filter read
    batch_idx,        \* batch_triage_papers: the loop variable
    errors,           \* _usage_stats["errors"]
    requests,         \* history: generate_content calls issued, per batch
    failed,           \* history: the batches whose except branch ran
    assigned,         \* history: what each batch's response assigns, per position
    pre_boost,        \* history: triage_score of each paper when the loop ended
    module,           \* which module's batch_triage_papers is running
    probe,            \* the input a function under test is applied to
    probe_out,        \* the results of the functions on probe
    variant,          \* which script is run: daily, frontier or rss
    env,              \* the required environment variables that are set
    log,              \* the Notion database: one record per page created
    seen_guids,       \* the rss run's file of the items already posted
    posts,            \* history: the calls of the Slack posting functions
    called,           \* history: the requests sent to external services
    raised_in,        \* history: the steps of the run that raised
    result            \* what the run returned, and the process exit code

vars == <<pc, papers, triaged, posted_pmids, top_papers, pubmed_papers,
          preprint_papers, itp_preprints, all_papers, batch_idx, errors,
          requests, failed, assigned, pre_boost, module, probe, probe_out,
          variant, env, log, seen_guids, posts, called, raised_in, result>>

pipelineVars == <<papers, triaged, posted_pmids, top_papers>>
sourceVars   == <<pubmed_papers, preprint_papers, itp_preprints, all_papers>>
triageVars   == <<batch_idx, errors, requests, failed, assigned, pre_boost,
                 module>>
probeVars    == <<probe, probe_out>>
runVars      == <<variant, env, log, seen_guids, posts, called, raised_in,
                 result>>

(***************************************************************************)
(* Python values                                                           *)
(***************************************************************************)

\* dict.get(k, d)
Get(p, k, d) == IF k \in DOMAIN p THEN p[k] ELSE d

\* p[k] = v
SetKey(p, k, v) == [q \in DOMAIN p \cup {k} |-> IF q = k THEN v ELSE p[q]]

\* Python's None
NoneVal == <<"None">>

\* truth value of a string or None: `if doi:`
Truthy(s) == s # <<>> /\ s # NoneVal

\* the smaller / larger of two integers: min(a, b), max(a, b)
Min(a, b) == IF a <= b THEN a ELSE b

\* a list comprehension [x for x in s if ...]: the elements of s whose
\* positions are in K, in order
RECURSIVE KeepFrom(_, _, _)
KeepFrom(s, K, i) ==
    IF i > Len(s) THEN <<>>
    ELSE (IF i \in K THEN <<s[i]>> ELSE <<>>) \o KeepFrom(s, K, i + 1)

KeepIdx(s, K) == KeepFrom(s, K, 1)

\* s[:n]
Take(s, n) == SubSeq(s, 1, Min(n, Len(s)))

\* the sequences over S of length at most n
SeqsUpTo(S, n) == UNION {[1..k -> S] : k \in 0..n}

(***************************************************************************)
(* The scoring functions                                                   *)
(***************************************************************************)

\* a slip in calculate_combined_score: the actionability test is left out
calculate_combined_score_no_action_test(paper) ==
    LET rel    == Get(paper, "triage_score", -1)
        evid   == Get(paper, "evidence_score", -1)
        action == Get(paper, "actionability_score", -1)
    IN  IF rel < 0 \/ evid < 0 THEN 0
        ELSE rel + evid + action

\* daily_digest.calculate_combined_score
daily_calculate_combined_score(paper) ==
    LET rel    == Get(paper, "triage_score", -1)
        evid   == Get(paper, "evidence_score", -1)
        action == Get(paper, "actionability_score", -1)
    IN  IF rel < 0 \/ evid < 0 \/ action < 0 THEN 0
        ELSE rel + evid + action

\* frontier_digest.calculate_combined_score
frontier_calculate_combined_score(paper) ==
    LET rel    == Get(paper, "triage_score", -1)
        evid   == Get(paper, "evidence_score", -1)
        action == Get(paper, "actionability_score", -1)
    IN  IF rel < 0 \/ evid < 0 \/ action < 0 THEN 0
        ELSE rel + evid + action

\* int(h / 2) for an integer h: Python's int() of a float truncates toward
\* zero, and the weighted sum is a multiple of 0.5, so it is exact as a float.
IntOfHalves(h) == IF h >= 0 THEN h \div 2 ELSE -((-h) \div 2)

\* a slip in calculate_frontier_combined_score: floor division (//) for int()
calculate_frontier_combined_score_floor(paper) ==
    LET rel      == Get(paper, "triage_score", 0)
        evid     == Get(paper, "evidence_score", 0)
        action   == Get(paper, "actionability_score", 0)
        frontier == Get(paper, "frontier_score", 0)
    IN  IF rel < 0 THEN 0
        ELSE (2 * rel + evid + action + 3 * frontier) \div 2

\* frontier_digest.calculate_frontier_combined_score; the weighted sum
\* rel + evid*0.5 + action*0.5 + frontier*1.5 is held as twice its value.
calculate_frontier_combined_score(paper) ==
    LET rel      == Get(paper, "triage_score", 0)
        evid     == Get(paper, "evidence_score", 0)
        action   == Get(paper, "actionability_score", 0)
        frontier == Get(paper, "frontier_score", 0)
    IN  IF rel < 0 THEN 0
        ELSE IntOfHalves(2 * rel + evid + action + 3 * frontier)

\* notion_logger.log_paper, lines 52-59: the combined score of the page
log_paper_combined_score(paper) ==
    LET relevance     == Get(paper, "triage_score", -1)
        evidence      == Get(paper, "evidence_score", -1)
        actionability == Get(paper, "actionability_score", -1)
    IN  IF relevance >= 0 THEN relevance + evidence + actionability ELSE 0

\* notion_logger.log_paper, lines 136-138: the number written to the
\* "Combined Score" property, None leaving it blank
log_paper_combined_property(paper) ==
    LET combined_score == log_paper_combined_score(paper)
    IN  IF combined_score > 0 THEN combined_score ELSE NoneVal

(***************************************************************************)
(* The frontier sources and the combination step                           *)
(***************************************************************************)

\* str.replace(old, new) for one-character old and new
Replace(s, old, new) == [i \in 1..Len(s) |-> IF s[i] = old THEN new ELSE s[i]]

\* the literal "preprint_"
PreprintPrefix == <<"p", "r", "e", "p", "r", "i", "n", "t", "_">>

\* preprint._format_preprint: the keys the combination step reads
format_preprint(preprint) ==
    LET doi == Get(preprint, "doi", <<>>)
    IN  [doi         |-> doi,
         pmid        |-> PreprintPrefix \o Replace(doi, "/", "_"),
         is_preprint |-> TRUE]

\* pubmed_headless.fetch_pubmed_details, lines 110-120: the loop over a
\* record's ArticleIdList, from position i with doi and pmid so far
RECURSIVE ArticleIds(_, _, _, _)
ArticleIds(article_ids, i, doi, pmid) ==
    IF i > Len(article_ids) THEN [doi |-> doi, pmid |-> pmid]
    ELSE LET id_obj == article_ids[i]
         IN  IF id_obj.IdType = "doi"
             THEN ArticleIds(article_ids, i + 1, id_obj.value, pmid)
             ELSE IF id_obj.IdType = "pubmed"
             THEN ArticleIds(article_ids, i + 1, doi, id_obj.value)
             ELSE ArticleIds(article_ids, i + 1, doi, pmid)

\* pubmed_headless.fetch_pubmed_details: the record built from one article
pubmed_article(article_ids) ==
    LET ids == ArticleIds(article_ids, 1, NoneVal, NoneVal)
    IN  [doi |-> ids.doi, pmid |-> ids.pmid, source |-> "PubMed"]

\* all_papers with each dict's position recorded
RECURSIVE Numbered(_, _)
Numbered(s, i) ==
    IF i > Len(s) THEN <<>>
    ELSE <<SetKey(s[i], "pos", i)>> \o Numbered(s, i + 1)

\* a slip in the duplicate filter: the pmid test is left out
RECURSIVE DedupeFromDoiOnly(_, _, _, _, _)
DedupeFromDoiOnly(all, i, seen_dois, seen_pmids, unique) ==
    IF i > Len(all) THEN unique
    ELSE LET paper == all[i]
             doi   == Get(paper, "doi", <<>>)
         IN  IF Truthy(doi) /\ doi \in seen_dois
             THEN DedupeFromDoiOnly(all, i + 1, seen_dois, seen_pmids, unique)
             ELSE DedupeFromDoiOnly(all, i + 1,
                                    IF Truthy(doi) THEN seen_dois \cup {doi}
                                                   ELSE seen_dois,
                                    seen_pmids, Append(unique, paper))

\* a slip in the duplicate filter: only the identifiers of the previous paper
\* of the input are remembered, so that only adjacent duplicates are dropped
RECURSIVE DedupeFromAdjacent(_, _, _, _, _)
DedupeFromAdjacent(all, i, seen_dois, seen_pmids, unique) ==
    IF i > Len(all) THEN unique
    ELSE LET paper == all[i]
             doi   == Get(paper, "doi", <<>>)
             pmid  == Get(paper, "pmid", <<>>)
             dois  == IF Truthy(doi) THEN {doi} ELSE {}
             pmids == IF Truthy(pmid) THEN {pmid} ELSE {}
         IN  IF \/ Truthy(doi) /\ doi \in seen_dois
                \/ Truthy(pmid) /\ pmid \in seen_pmids
             THEN DedupeFromAdjacent(all, i + 1, dois, pmids, unique)
             ELSE DedupeFromAdjacent(all, i + 1, dois, pmids,
                                     Append(unique, paper))

\* frontier_digest.run_frontier_digest, lines 168-187: the loop over
\* all_papers from position i, with the seen sets and unique_papers so far
RECURSIVE DedupeFrom(_, _, _, _, _)
DedupeFrom(all, i, seen_dois, seen_pmids, unique) ==
    IF i > Len(all) THEN unique
    ELSE LET paper == all[i]
             doi   == Get(paper, "doi", <<>>)
             pmid  == Get(paper, "pmid", <<>>)
         IN  IF Truthy(doi) /\ doi \in seen_dois
             THEN DedupeFrom(all, i + 1, seen_dois, seen_pmids, unique)
             ELSE IF Truthy(pmid) /\ pmid \in seen_pmids
             THEN DedupeFrom(all, i + 1, seen_dois, seen_pmids, unique)
             ELSE DedupeFrom(all, i + 1,
                             IF Truthy(doi) THEN seen_dois \cup {doi}
                                            ELSE seen_dois,
                             IF Truthy(pmid) THEN seen_pmids \cup {pmid}
                                             ELSE seen_pmids,
                             Append(unique, paper))

\* lines 164-189: unique_papers for the concatenated list
Dedupe(all) == DedupeFrom(all, 1, {}, {}, <<>>)

(***************************************************************************)
(* The triage stage: batch_triage_papers                                   *)
(***************************************************************************)

UpperCase == <<"A", "B", "C", "D", "E", "F", "G", "H", "I", "J", "K", "L", "M",
               "N", "O", "P", "Q", "R", "S", "T", "U", "V", "W", "X", "Y", "Z">>
LowerCase == <<"a", "b", "c", "d", "e", "f", "g", "h", "i", "j", "k", "l", "m",
               "n", "o", "p", "q", "r", "s", "t", "u", "v", "w", "x", "y", "z">>

\* the lower-case letter of each upper-case letter
ToLower ==
    [c \in {UpperCase[u] : u \in 1..Len(UpperCase)} |->
        LowerCase[CHOOSE u \in 1..Len(UpperCase) : UpperCase[u] = c]]

\* str.lower()
Lower(s) ==
    [i \in 1..Len(s) |-> IF s[i] \in DOMAIN ToLower THEN ToLower[s[i]] ELSE s[i]]

\* needle in hay
Contains(hay, needle) ==
    \E i \in 0..(Len(hay) - Len(needle)) :
        SubSeq(hay, i + 1, i + Len(needle)) = needle

\* a slip in _author_in_list: the two .lower() calls are left out
author_in_list_case_sensitive(authors_str, author_list) ==
    IF authors_str = <<>> \/ author_list = <<>> THEN FALSE
    ELSE \E a \in 1..Len(author_list) : Contains(authors_str, author_list[a])

\* gemini_headless._author_in_list (gemini_helpers._author_in_list is the same)
author_in_list(authors_str, author_list) ==
    IF authors_str = <<>> \/ author_list = <<>> THEN FALSE
    ELSE \E a \in 1..Len(author_list) :
             Contains(Lower(authors_str), Lower(author_list[a]))

\* batch_triage_papers, lines 142-148: the blacklist filter
blacklist_filter(ps, blacklist) ==
    IF blacklist # <<>>
    THEN KeepIdx(ps, {i \in 1..Len(ps) :
                        ~author_in_list(Get(ps[i], "authors", <<>>), blacklist)})
    ELSE ps

\* lines 154-158: the initial scores of one paper
init_scores(paper, whitelist) ==
    SetKey(SetKey(SetKey(SetKey(paper,
        "triage_score", -1),
        "evidence_score", -1),
        "actionability_score", -1),
        "whitelisted", author_in_list(Get(paper, "authors", <<>>), whitelist))

\* one generate_content request and the papers its prompt is built from
LlmCall(op, batch, ok) ==
    [service |-> "gemini", op |-> op, key |-> <<>>, ok |-> ok, batch |-> batch]

\* line 161
total_batches(n, batch_size) == (n + batch_size - 1) \div batch_size

\* a score object that is a JSON object, not another JSON value
IsDict(score_obj) == "not_a_dict" \notin DOMAIN score_obj

\* a slip in the score loop: the index is tested against len(papers), not
\* against len(batch)
apply_score_obj_unchecked(ps, start, end, score_obj) ==
    LET idx == Get(score_obj, "index", -1)
    IN  IF 0 <= idx /\ start + idx < Len(ps)
        THEN [ps EXCEPT ![start + idx + 1] =
                SetKey(SetKey(SetKey(@,
                    "triage_score", Get(score_obj, "relevance", -1)),
                    "evidence_score", Get(score_obj, "evidence", -1)),
                    "actionability_score", Get(score_obj, "actionability", -1))]
        ELSE ps

\* a slip in the score loop: the index is used on papers, not on the batch
apply_score_obj_to_papers(ps, start, end, score_obj) ==
    LET idx == Get(score_obj, "index", -1)
    IN  IF 0 <= idx /\ idx < end - start /\ idx < Len(ps)
        THEN [ps EXCEPT ![idx + 1] =
                SetKey(SetKey(SetKey(@,
                    "triage_score", Get(score_obj, "relevance", -1)),
                    "evidence_score", Get(score_obj, "evidence", -1)),
                    "actionability_score", Get(score_obj, "actionability", -1))]
        ELSE ps

\* lines 208-212: one score object applied to batch = papers[start:end];
\* batch[idx] is the dict papers[start + idx]
apply_score_obj(ps, start, end, score_obj) ==
    LET idx == Get(score_obj, "index", -1)
    IN  IF 0 <= idx /\ idx < end - start
        THEN [ps EXCEPT ![start + idx + 1] =
                SetKey(SetKey(SetKey(@,
                    "triage_score", Get(score_obj, "relevance", -1)),
                    "evidence_score", Get(score_obj, "evidence", -1)),
                    "actionability_score", Get(score_obj, "actionability", -1))]
        ELSE ps

\* lines 207-212: the loop over scores from its k-th element; score_obj.get
\* raises on an element that is not a JSON object
RECURSIVE apply_scores(_, _, _, _, _)
apply_scores(ps, start, end, scores, k) ==
    IF k > Len(scores) THEN [papers |-> ps, raised |-> FALSE]
    ELSE IF ~IsDict(scores[k]) THEN [papers |-> ps, raised |-> TRUE]
    ELSE apply_scores(apply_score_obj(ps, start, end, scores[k]),
                      start, end, scores, k + 1)

\* lines 185-216: the try block of one batch on the service's response
handle_response(ps, start, end, response) ==
    IF response.kind = "request_error" THEN [papers |-> ps, raised |-> TRUE]
    ELSE IF response.kind = "invalid_json" THEN [papers |-> ps, raised |-> TRUE]
    ELSE apply_scores(ps, start, end, response.scores, 1)

\* line 215 (gemini_headless only): _usage_stats["errors"] += 1
errors_after(n, raised) == IF raised THEN n + 1 ELSE n

\* a slip in the boost: the cap is left out
whitelist_boost_uncapped(paper) ==
    IF Get(paper, "whitelisted", FALSE) /\ paper["triage_score"] >= 0
    THEN SetKey(paper, "triage_score", paper["triage_score"] + 2)
    ELSE paper

\* gemini_headless.batch_triage_papers, lines 219-221, on one paper
whitelist_boost(paper) ==
    IF Get(paper, "whitelisted", FALSE) /\ paper["triage_score"] >= 0
    THEN SetKey(paper, "triage_score", Min(10, paper["triage_score"] + 2))
    ELSE paper

\* gemini_helpers.batch_triage_papers, lines 159-161, on one paper
helpers_whitelist_boost(paper) ==
    IF Get(paper, "whitelisted", FALSE) /\ paper["triage_score"] >= 0
    THEN SetKey(paper, "triage_score", Min(10, paper["triage_score"] + 2))
    ELSE paper

\* list.reverse()
Reverse(s) == [i \in 1..Len(s) |-> s[Len(s) + 1 - i]]

\* one insertion of the stable ascending sort: x goes after every element
\* whose key k is not greater than its own
RECURSIVE InsertAsc(_, _, _)
InsertAsc(sorted, x, k) ==
    IF sorted = <<>> THEN <<x>>
    ELSE IF sorted[Len(sorted)][k] <= x[k] THEN Append(sorted, x)
    ELSE Append(InsertAsc(SubSeq(sorted, 1, Len(sorted) - 1), x, k),
                sorted[Len(sorted)])

RECURSIVE SortAscFrom(_, _, _, _)
SortAscFrom(s, i, k, sorted) ==
    IF i > Len(s) THEN sorted
    ELSE SortAscFrom(s, i + 1, k, InsertAsc(sorted, s[i], k))

\* the stable ascending sort of list.sort on the key k of each dict
StableSortAsc(s, k) == SortAscFrom(s, 1, k, <<>>)

\* a slip in the sort: the list is sorted ascending and reversed, which
\* reverses the input order of equal keys
list_sort_reverse_ties_reversed(s, k) == Reverse(StableSortAsc(s, k))

\* list.sort(key=lambda p: p[k], reverse=True): CPython reverses the list,
\* sorts it ascending and stable, and reverses the result, so that equal keys
\* keep their input order
list_sort_reverse(s, k) == Reverse(StableSortAsc(Reverse(s), k))

\* daily_digest.py: the selection constants
DAILY_TOP_N_PAPERS == 5
DAILY_MIN_COMBINED_SCORE == 15

\* frontier_digest.py: the selection constants
FRONTIER_TOP_N_PAPERS == 7
FRONTIER_MIN_COMBINED_SCORE == 12
MIN_FRONTIER_SCORE == 6

(***************************************************************************)
(* Idle values of the variables a specification does not use               *)
(***************************************************************************)

PipelineIdle ==
    /\ papers = <<>>
    /\ triaged = <<>>
    /\ posted_pmids = {}
    /\ top_papers = <<>>

SourceIdle ==
    /\ pubmed_papers = <<>>
    /\ preprint_papers = <<>>
    /\ itp_preprints = <<>>
    /\ all_papers = <<>>

TriageIdle ==
    /\ batch_idx = 0
    /\ errors = 0
    /\ requests = <<>>
    /\ failed = {}
    /\ assigned = <<>>
    /\ pre_boost = <<>>
    /\ module = "gemini_headless"

ProbeIdle ==
    /\ probe = <<>>
    /\ probe_out = <<>>

RunIdle ==
    /\ variant = "daily"
    /\ env = {}
    /\ log = <<>>
    /\ seen_guids = {}
    /\ posts = <<>>
    /\ called = <<>>
    /\ raised_in = <<>>
    /\ result = "running"

(***************************************************************************)
(* SpecScore: the scoring functions applied to one paper                   *)
(***************************************************************************)

\* the largest score value of a probe paper
MaxProbeScore == 10

\* a score key of a probe paper: missing (<<>>) or an integer
ProbeScores == {<<>>} \cup {<<v>> : v \in (-2)..MaxProbeScore}

ScoreKeys == {"triage_score", "evidence_score", "actionability_score",
              "frontier_score"}

\* the dict holding exactly the keys whose value is given
ProbePaper(opt) ==
    [k \in {q \in ScoreKeys : opt[q] # <<>>} |-> opt[k][1]]

ProbePapers == {ProbePaper(opt) : opt \in [ScoreKeys -> ProbeScores]}

InitScore ==
    /\ pc = "probe"
    /\ probe \in ProbePapers
    /\ probe_out = <<>>
    /\ PipelineIdle /\ SourceIdle /\ TriageIdle /\ RunIdle

\* daily_digest.py line 157, frontier_digest.py lines 236-237 and
\* notion_logger.py lines 52-59 and 136-138 on one paper
ScoreProbe ==
    /\ pc = "probe"
    /\ pc' = "probed"
    /\ probe_out' = [daily    |-> daily_calculate_combined_score(probe),
                     frontier |-> frontier_calculate_combined_score(probe),
                     weighted |-> calculate_frontier_combined_score(probe),
                     logged   |-> log_paper_combined_score(probe),
                     written  |-> log_paper_combined_property(probe)]
    /\ UNCHANGED <<probe, pipelineVars, sourceVars, triageVars>>
    /\ UNCHANGED runVars

NextScore == ScoreProbe

SpecScore == InitScore /\ [][NextScore]_vars

(***************************************************************************)
(* SpecCombine: frontier steps 3-5 have returned; the combination step     *)
(***************************************************************************)

\* the most papers the three sources return together
MaxCombined == 3

DoiX   == <<"1", "/", "x">>
DoiXY  == <<"1", "/", "x", "/", "y">>
DoiX_Y == <<"1", "/", "x", "_", "y">>

\* the id objects of a PubMed record's ArticleIdList
IdObjects == [IdType : {"doi"}, value : {DoiX, DoiXY}]
                 \cup [IdType : {"pubmed"}, value : {<<"7">>, <<"8">>}]

\* what fetch_pubmed_details builds from the ArticleIdLists PubMed can send
PubmedRecords == {pubmed_article(ids) : ids \in SeqsUpTo(IdObjects, 2)}

\* what _format_preprint builds from the records bioRxiv/medRxiv can send:
\* without a doi key, or with a doi
PreprintRecords ==
    {format_preprint(raw) :
        raw \in {<<>>} \cup [doi : {DoiX, DoiXY, DoiX_Y}]}

InitCombine ==
    /\ pc = "fetched"
    /\ \E a, b, c \in 0..MaxCombined :
          /\ a + b + c <= MaxCombined
          /\ pubmed_papers \in [1..a -> PubmedRecords]
          /\ preprint_papers \in [1..b -> PreprintRecords]
          /\ itp_preprints \in [1..c -> PreprintRecords]
    /\ all_papers = <<>>
    /\ PipelineIdle /\ TriageIdle /\ ProbeIdle /\ RunIdle

\* run_frontier_digest, lines 164-198: concatenate, drop duplicates, and
\* leave through the no-papers branch when nothing is left
Combine ==
    /\ pc = "fetched"
    /\ all_papers' = Numbered(pubmed_papers \o preprint_papers \o itp_preprints, 1)
    /\ papers' = Dedupe(all_papers')
    /\ pc' = IF papers' = <<>> THEN "no_papers" ELSE "combined"
    /\ UNCHANGED <<triaged, posted_pmids, top_papers, pubmed_papers,
                   preprint_papers, itp_preprints, triageVars, probeVars>>
    /\ UNCHANGED runVars

NextCombine == Combine

SpecCombine == InitCombine /\ [][NextCombine]_vars

(***************************************************************************)
(* SpecDedupe: the duplicate filter applied to a list and to its own output*)
(***************************************************************************)

InitDedupe ==
    /\ pc = "dedupe_probe"
    /\ probe \in {Numbered(l, 1) :
                    l \in SeqsUpTo(PubmedRecords \cup PreprintRecords,
                                   MaxCombined)}
    /\ probe_out = <<>>
    /\ PipelineIdle /\ SourceIdle /\ TriageIdle /\ RunIdle

\* frontier_digest.py lines 164-189 run on probe, and again on what it kept
DedupeTwice ==
    /\ pc = "dedupe_probe"
    /\ pc' = "deduped"
    /\ probe_out' = [once  |-> Dedupe(probe),
                     twice |-> Dedupe(Dedupe(probe))]
    /\ UNCHANGED <<probe, pipelineVars, sourceVars, triageVars, runVars>>

NextDedupe == DedupeTwice

SpecDedupe == InitDedupe /\ [][NextDedupe]_vars

(***************************************************************************)
(* SpecEnrich: one call of enrich_papers_with_altmetric                    *)
(***************************************************************************)

\* altmetric_headless.py line 21
altmetric_default == [score |-> 0, twitter |-> 0, news |-> 0]

\* get_altmetric_by_doi, lines 27-38: the try block on the reply the service
\* gives; requests.get, response.json() and data.get can raise
altmetric_try(reply) ==
    IF reply.kind = "exception" THEN [raises |-> TRUE]
    ELSE IF reply.status_code # 200
    THEN [raises |-> FALSE, value |-> altmetric_default]
    ELSE IF reply.kind = "invalid_json" THEN [raises |-> TRUE]
    ELSE IF ~IsDict(reply.data) THEN [raises |-> TRUE]
    ELSE [raises |-> FALSE,
          value  |-> [score   |-> Get(reply.data, "score", 0),
                      twitter |-> Get(reply.data, "cited_by_tweeters_count", 0),
                      news    |-> Get(reply.data, "cited_by_msm_count", 0)]]

\* a slip in get_altmetric_by_doi: the `if not doi` guard is left out, and
\* the lookup is requested for a missing doi too
get_altmetric_by_doi_no_guard(doi, reply) ==
    [requested |-> TRUE,
     raised    |-> FALSE,
     altmetric |-> IF altmetric_try(reply).raises THEN altmetric_default
                   ELSE altmetric_try(reply).value]

\* altmetric_headless.get_altmetric_by_doi: the record returned, whether
\* requests.get was called, and whether an exception left the function (the
\* except branch, lines 40-41, catches every Exception of the try block)
get_altmetric_by_doi(doi, reply) ==
    IF ~Truthy(doi)
    THEN [requested |-> FALSE, raised |-> FALSE, altmetric |-> altmetric_default]
    ELSE [requested |-> TRUE,
          raised    |-> FALSE,
          altmetric |-> IF altmetric_try(reply).raises THEN altmetric_default
                        ELSE altmetric_try(reply).value]

\* enrich_papers_with_altmetric, lines 57-58, on the replies to its lookups
enrich_papers_with_altmetric(ps, replies) ==
    [i \in 1..Len(ps) |->
        SetKey(ps[i], "altmetric",
               get_altmetric_by_doi(Get(ps[i], "doi", NoneVal),
                                    replies[i]).altmetric)]

\* the requests.get calls of one call of enrich_papers_with_altmetric
altmetric_requests(ps, replies) ==
    LET asked == {i \in 1..Len(ps) :
                    get_altmetric_by_doi(Get(ps[i], "doi", NoneVal),
                                         replies[i]).requested}
    IN  KeepIdx([i \in 1..Len(ps) |-> [service |-> "altmetric", pos |-> i]],
                asked)

\* the most papers handed to enrich_papers_with_altmetric
MaxEnrich == 3

\* the papers handed over: with a doi, with doi None (a PubMed record without
\* one), with doi "" (a preprint without one), and without the key
EnrichPapers ==
    {[doi |-> DoiX], [doi |-> NoneVal], [doi |-> <<>>], [pmid |-> <<"7">>]}

\* what a lookup can come back with: an exception of requests.get, a status
\* other than 200, and status 200 with a body that is not JSON, that is not
\* a JSON object, that lacks two of the counts, or that has all three
AltmetricReplies ==
    {[kind |-> "exception"],
     [kind |-> "response", status_code |-> 404],
     [kind |-> "invalid_json", status_code |-> 200],
     [kind |-> "response", status_code |-> 200, data |-> [not_a_dict |-> TRUE]],
     [kind |-> "response", status_code |-> 200, data |-> [score |-> 5]],
     [kind |-> "response", status_code |-> 200,
      data |-> [score |-> 12, cited_by_tweeters_count |-> 3,
                cited_by_msm_count |-> 1]]}

InitEnrich ==
    /\ pc = "enrich_start"
    /\ papers \in {Numbered(l, 1) : l \in SeqsUpTo(EnrichPapers, MaxEnrich)}
    /\ probe = papers
    /\ probe_out = <<>>
    /\ triaged = <<>>
    /\ posted_pmids = {}
    /\ top_papers = <<>>
    /\ SourceIdle /\ TriageIdle /\ RunIdle

\* enrich_papers_with_altmetric, lines 44-63: the whole loop, on the replies
\* the service gives to the lookups
EnrichPapersWithAltmetric ==
    /\ pc = "enrich_start"
    /\ \E replies \in [1..Len(papers) -> AltmetricReplies] :
          /\ papers' = enrich_papers_with_altmetric(papers, replies)
          /\ called' = called \o altmetric_requests(papers, replies)
          /\ probe_out' = replies
          /\ raised_in' =
                IF \E i \in 1..Len(papers) :
                      get_altmetric_by_doi(Get(papers[i], "doi", NoneVal),
                                           replies[i]).raised
                THEN <<"enrich_papers_with_altmetric">>
                ELSE <<>>
    /\ pc' = IF raised_in' = <<>> THEN "enriched" ELSE "enrich_raised"
    /\ UNCHANGED <<probe, triaged, posted_pmids, top_papers, sourceVars,
                   triageVars, variant, env, log, seen_guids, posts,
                   result>>

NextEnrich == EnrichPapersWithAltmetric

SpecEnrich == InitEnrich /\ [][NextEnrich]_vars

(***************************************************************************)
(* SpecTriage: one call of batch_triage_papers                             *)
(***************************************************************************)

\* the most papers handed to batch_triage_papers
MaxTriage == 3

\* the batch_size argument
BatchSize == 2

\* the most score objects in one response
MaxObjects == 2

\* the whitelist and the blacklist of the run's configuration
TriageWhitelist == << <<"L", "i">> >>
TriageBlacklist == << <<"w", "U">> >>

\* the authors strings of the papers: one on the whitelist, one on the
\* blacklist, one on neither
TriageAuthors == {<<"L", "I", " ", "A">>, <<"W", "u", " ", "B">>, <<"N", "g">>}

\* the score objects a response can hold: a JSON value that is not an object,
\* an object without an index, objects with all three scores whose index is
\* in the batch or past it, and an object for index 0 with a relevance off
\* the 0-10 scale and no other score
ScoreObjects ==
    {[not_a_dict |-> TRUE],
     [relevance |-> 9, evidence |-> 5, actionability |-> 5],
     [index |-> 0, relevance |-> 12]}
        \cup {[index |-> i, relevance |-> 9, evidence |-> 5,
               actionability |-> 5] : i \in 0..BatchSize}

\* what the request of one batch can come back with
Responses ==
    {[kind |-> "request_error"], [kind |-> "invalid_json"]}
        \cup {[kind |-> "scores", scores |-> sc] :
                sc \in SeqsUpTo(ScoreObjects, MaxObjects)}

\* what a response's score objects assign to the paper at index i of the
\* batch: the scores of the last object that names i, or the sentinels
Assigns(scores, i) ==
    LET hits == {k \in 1..Len(scores) :
                    IsDict(scores[k]) /\ Get(scores[k], "index", -1) = i}
    IN  IF hits = {}
        THEN [relevance |-> -1, evidence |-> -1, actionability |-> -1]
        ELSE LET last == CHOOSE k \in hits : \A h \in hits : h <= k
             IN  [relevance     |-> Get(scores[last], "relevance", -1),
                  evidence      |-> Get(scores[last], "evidence", -1),
                  actionability |-> Get(scores[last], "actionability", -1)]

InitTriage ==
    /\ pc = "triage_start"
    /\ module \in {"gemini_headless", "gemini_helpers"}
    /\ papers \in {Numbered(l, 1) :
                     l \in SeqsUpTo([authors : TriageAuthors], MaxTriage)}
    /\ triaged = <<>>
    /\ posted_pmids = {}
    /\ top_papers = <<>>
    /\ batch_idx = 0
    /\ errors = 0
    /\ requests = <<>>
    /\ failed = {}
    /\ assigned = <<>>
    /\ pre_boost = <<>>
    /\ SourceIdle /\ ProbeIdle /\ RunIdle

\* batch_triage_papers, lines 137-161: the blacklist filter, the initial
\* scores, the number of batches
TriageStart ==
    /\ pc = "triage_start"
    /\ LET kept == blacklist_filter(papers, TriageBlacklist)
           n    == total_batches(Len(kept), BatchSize)
       IN  /\ papers' = [i \in 1..Len(kept) |->
                            init_scores(kept[i], TriageWhitelist)]
           /\ requests' = [b \in 1..n |-> 0]
           /\ assigned' = [b \in 1..n |-> <<>>]
           /\ pc' = IF n = 0 THEN "triage_boost" ELSE "triage_batch"
    /\ batch_idx' = 0
    /\ failed' = {}
    /\ pre_boost' = <<>>
    /\ UNCHANGED <<errors, module, triaged, posted_pmids, top_papers,
                   sourceVars, probeVars>>
    /\ UNCHANGED runVars

\* lines 163-216: one pass of the batch loop, on the response the service
\* gives to this batch's request
TriageBatch ==
    /\ pc = "triage_batch"
    /\ \E response \in Responses :
          LET start == batch_idx * BatchSize
              end   == Min(start + BatchSize, Len(papers))
              out   == handle_response(papers, start, end, response)
              last  == batch_idx + 1 =
                           total_batches(Len(papers), BatchSize)
          IN  /\ papers' = out.papers
              /\ errors' = IF module = "gemini_headless"
                           THEN errors_after(errors, out.raised)
                           ELSE errors
              /\ failed' = IF out.raised THEN failed \cup {batch_idx}
                                         ELSE failed
              /\ requests' = [requests EXCEPT ![batch_idx + 1] = @ + 1]
              /\ assigned' = [assigned EXCEPT ![batch_idx + 1] =
                                IF out.raised THEN <<>>
                                ELSE [i \in 1..(end - start) |->
                                        Assigns(response.scores, i - 1)]]
              /\ pre_boost' = IF last
                              THEN [i \in 1..Len(papers) |->
                                      out.papers[i]["triage_score"]]
                              ELSE pre_boost
              /\ pc' = IF last THEN "triage_boost" ELSE "triage_batch"
    /\ batch_idx' = batch_idx + 1
    /\ UNCHANGED <<module, triaged, posted_pmids, top_papers, sourceVars,
                   probeVars>>
    /\ UNCHANGED runVars

\* lines 218-223: the whitelist boost, and the return
TriageBoost ==
    /\ pc = "triage_boost"
    /\ papers' = [i \in 1..Len(papers) |->
                    IF module = "gemini_headless"
                    THEN whitelist_boost(papers[i])
                    ELSE helpers_whitelist_boost(papers[i])]
    /\ triaged' = papers'
    /\ pc' = "triaged"
    /\ UNCHANGED <<posted_pmids, top_papers, sourceVars, triageVars, probeVars>>
    /\ UNCHANGED runVars

NextTriage == TriageStart \/ TriageBatch \/ TriageBoost

SpecTriage == InitTriage /\ [][NextTriage]_vars

(***************************************************************************)
(* SpecApply: one call of batch_triage_papers, each request recorded with  *)
(* its batch and its response                                              *)
(***************************************************************************)

\* the most papers handed to batch_triage_papers
MaxApply == 4

\* the authors strings of the papers: one on the blacklist, one not
ApplyAuthors == {<<"W", "u", " ", "B">>, <<"N", "g">>}

\* the score objects of a response: one for every index from -1 to the
\* batch size, whose relevance tells the index it names
ApplyObjects ==
    {[index |-> i, relevance |-> 6 + i, evidence |-> 5, actionability |-> 4] :
        i \in (-1)..BatchSize}

\* what the request of one batch can come back with: an error, or a JSON
\* array of no, one or two score objects
ApplyResponses ==
    {[kind |-> "request_error"], [kind |-> "scores", scores |-> <<>>]}
        \cup {[kind |-> "scores", scores |-> <<a>>] : a \in ApplyObjects}
        \cup {[kind |-> "scores", scores |-> <<a, b>>] :
                a \in ApplyObjects, b \in ApplyObjects}

InitApply ==
    /\ pc = "triage_start"
    /\ module = "gemini_headless"
    /\ papers \in {Numbered(l, 1) :
                     l \in SeqsUpTo([authors : ApplyAuthors], MaxApply)}
    /\ probe = papers
    /\ probe_out = <<>>
    /\ triaged = <<>>
    /\ posted_pmids = {}
    /\ top_papers = <<>>
    /\ batch_idx = 0
    /\ errors = 0
    /\ requests = <<>>
    /\ failed = {}
    /\ assigned = <<>>
    /\ pre_boost = <<>>
    /\ SourceIdle /\ RunIdle

\* gemini_headless.batch_triage_papers, lines 163-216: one pass of the batch
\* loop; the request is recorded with the batch its prompt is built from
\* and with the response it gets
ApplyBatch ==
    /\ pc = "triage_batch"
    /\ \E response \in ApplyResponses :
          LET start == batch_idx * BatchSize
              end   == Min(start + BatchSize, Len(papers))
              out   == handle_response(papers, start, end, response)
              last  == batch_idx + 1 =
                           total_batches(Len(papers), BatchSize)
          IN  /\ papers' = out.papers
              /\ errors' = errors_after(errors, out.raised)
              /\ failed' = IF out.raised THEN failed \cup {batch_idx}
                                         ELSE failed
              /\ requests' = [requests EXCEPT ![batch_idx + 1] = @ + 1]
              /\ called' = Append(called,
                    SetKey(LlmCall("triage", SubSeq(papers, start + 1, end),
                                   response.kind # "request_error"),
                           "response", response))
              /\ pre_boost' = IF last
                              THEN [i \in 1..Len(papers) |->
                                      out.papers[i]["triage_score"]]
                              ELSE pre_boost
              /\ pc' = IF last THEN "triage_boost" ELSE "triage_batch"
    /\ batch_idx' = batch_idx + 1
    /\ UNCHANGED <<module, assigned, triaged, posted_pmids, top_papers,
                   sourceVars, probeVars, variant, env, log, seen_guids,
                   posts, raised_in, result>>

NextApply == TriageStart \/ ApplyBatch \/ TriageBoost

SpecApply == InitApply /\ [][NextApply]_vars

(***************************************************************************)
(* SpecDaily: run_daily_digest from the return of batch_triage_papers      *)
(***************************************************************************)

\* the most papers the scoring stage returns to the daily run
MaxDaily == 6

\* the papers the scoring stage returns: pmid and the three scores
DailyPapers ==
    {[pmid |-> <<"7">>, triage_score |-> 9, evidence_score |-> 6,
        actionability_score |-> 5],
     [pmid |-> <<"8">>, triage_score |-> 5, evidence_score |-> 5,
        actionability_score |-> 5],
     [pmid |-> <<"9">>, triage_score |-> 5, evidence_score |-> 5,
        actionability_score |-> 4],
     [pmid |-> <<"7">>, triage_score |-> -1, evidence_score |-> -1,
        actionability_score |-> -1]}

\* what get_posted_pmids can return: a set of non-empty pmid strings, empty
\* when nothing was posted or when the Notion query failed
PostedSets == {{}, {<<"7">>}}

\* lines 146-147 (frontier_digest.py 225-226): the posted filter
posted_filter(ps, posted) ==
    IF posted # {}
    THEN KeepIdx(ps, {i \in 1..Len(ps) : Get(ps[i], "pmid", <<>>) \notin posted})
    ELSE ps

\* lines 156-157: combined_score stored on every paper
daily_score_all(ps) ==
    [i \in 1..Len(ps) |->
        SetKey(ps[i], "combined_score", daily_calculate_combined_score(ps[i]))]

\* lines 163-166: the threshold and the truncation
daily_top(ps) ==
    Take(KeepIdx(ps, {i \in 1..Len(ps) :
                        ps[i]["combined_score"] >= DAILY_MIN_COMBINED_SCORE}),
         DAILY_TOP_N_PAPERS)

InitDaily ==
    /\ pc = "daily_triaged"
    /\ triaged \in {Numbered(l, 1) : l \in SeqsUpTo(DailyPapers, MaxDaily)}
    /\ papers = triaged
    /\ posted_pmids = {}
    /\ top_papers = <<>>
    /\ SourceIdle /\ TriageIdle /\ ProbeIdle /\ RunIdle

\* lines 142-149: step 7, on what get_posted_pmids returns
DailyFilterPosted ==
    /\ pc = "daily_triaged"
    /\ \E posted \in PostedSets :
          /\ posted_pmids' = posted
          /\ papers' = posted_filter(papers, posted)
    /\ pc' = "daily_filtered"
    /\ UNCHANGED <<triaged, top_papers, sourceVars, triageVars, probeVars>>
    /\ UNCHANGED runVars

\* lines 151-175: step 8, score, sort in place, threshold, truncate, and the
\* no-papers branch
DailySelect ==
    /\ pc = "daily_filtered"
    /\ papers' = list_sort_reverse(daily_score_all(papers), "combined_score")
    /\ top_papers' = daily_top(papers')
    /\ pc' = IF top_papers' = <<>> THEN "daily_no_papers" ELSE "daily_selected"
    /\ UNCHANGED <<triaged, posted_pmids, sourceVars, triageVars, probeVars>>
    /\ UNCHANGED runVars

NextDaily == DailyFilterPosted \/ DailySelect

SpecDaily == InitDaily /\ [][NextDaily]_vars

(***************************************************************************)
(* SpecFrontier: run_frontier_digest from the return of batch_triage_papers*)
(***************************************************************************)

\* frontier_digest.py line 45
ITP_AUTHOR_NAMES ==
    << <<"M", "i", "l", "l", "e", "r", " ", "R", "A">>,
       <<"S", "t", "r", "o", "n", "g", " ", "R">>,
       <<"H", "a", "r", "r", "i", "s", "o", "n", " ", "D", "E">>,
       <<"N", "a", "d", "o", "n", " ", "N", "L">> >>

\* is_itp_paper, line 87
itp_terms ==
    << <<"i", "n", "t", "e", "r", "v", "e", "n", "t", "i", "o", "n",
         "s", " ", "t", "e", "s", "t", "i", "n", "g", " ", "p", "r",
         "o", "g", "r", "a", "m">>,
       <<"i", "t", "p">>,
       <<"n", "i", "a", " ", "i", "t", "p">> >>

\* frontier_digest.is_itp_paper
is_itp_paper(paper) ==
    LET title    == Lower(Get(paper, "title", <<>>))
        abstract == Lower(Get(paper, "abstract", <<>>))
        authors  == Get(paper, "authors", <<>>)
    IN  IF \E t \in 1..Len(itp_terms) :
              Contains(title, itp_terms[t]) \/ Contains(abstract, itp_terms[t])
        THEN TRUE
        ELSE \E a \in 1..Len(ITP_AUTHOR_NAMES) :
                Contains(Lower(authors), Lower(ITP_AUTHOR_NAMES[a]))

\* lines 235-238: the scores and the ITP flag stored on every paper
frontier_score_all(ps) ==
    [i \in 1..Len(ps) |->
        SetKey(SetKey(SetKey(ps[i],
            "combined_score", frontier_calculate_combined_score(ps[i])),
            "frontier_combined_score", calculate_frontier_combined_score(ps[i])),
            "is_itp", is_itp_paper(ps[i]))]

\* line 241
itp_papers(ps) == KeepIdx(ps, {i \in 1..Len(ps) : Get(ps[i], "is_itp", FALSE)})

\* lines 244-249
other_papers(ps) ==
    KeepIdx(ps, {i \in 1..Len(ps) :
        /\ ~Get(ps[i], "is_itp", FALSE)
        /\ Get(ps[i], "frontier_combined_score", 0) >= FRONTIER_MIN_COMBINED_SCORE
        /\ Get(ps[i], "frontier_score", 0) >= MIN_FRONTIER_SCORE})

\* a slip in the selection: the ITP papers pass the score threshold too
frontier_select_itp_thresholded(ps) ==
    Take(KeepIdx(itp_papers(ps), {i \in 1..Len(itp_papers(ps)) :
            itp_papers(ps)[i]["frontier_combined_score"]
                >= FRONTIER_MIN_COMBINED_SCORE})
         \o list_sort_reverse(other_papers(ps), "frontier_combined_score"),
         FRONTIER_TOP_N_PAPERS)

\* lines 241-256: ITP papers first, then the other papers by
\* frontier_combined_score descending, cut to TOP_N_PAPERS
frontier_select(ps) ==
    Take(itp_papers(ps)
         \o list_sort_reverse(other_papers(ps), "frontier_combined_score"),
         FRONTIER_TOP_N_PAPERS)

\* the most papers the scoring stage returns to the frontier run
MaxFrontier == 8

\* the papers the scoring stage returns: an ITP paper by its title scored
\* below the thresholds, a paper of an ITP author left at the sentinels, and
\* a paper that is neither, scored 9/9/9
FrontierPapers ==
    {[pmid |-> <<"7">>, title |-> <<"I", "T", "P">>,
        abstract |-> <<>>, authors |-> <<"N", "g">>,
        triage_score |-> 3, evidence_score |-> 2, actionability_score |-> 2],
     [pmid |-> <<"8">>, title |-> <<"a">>, abstract |-> <<>>,
        authors |-> <<"s", "t", "r", "o", "n", "g", " ", "r">>,
        triage_score |-> -1, evidence_score |-> -1, actionability_score |-> -1],
     [pmid |-> <<"9">>, title |-> <<"a">>, abstract |-> <<"a">>,
        authors |-> <<"N", "g">>,
        triage_score |-> 9, evidence_score |-> 9, actionability_score |-> 9]}

InitFrontier ==
    /\ pc = "frontier_triaged"
    /\ papers \in {Numbered(l, 1) : l \in SeqsUpTo(FrontierPapers, MaxFrontier)}
    /\ triaged = <<>>
    /\ posted_pmids = {}
    /\ top_papers = <<>>
    /\ SourceIdle /\ TriageIdle /\ ProbeIdle /\ RunIdle

\* lines 217-228: step 8, on what get_posted_pmids returns
FrontierFilterPosted ==
    /\ pc = "frontier_triaged"
    /\ \E posted \in PostedSets :
          /\ posted_pmids' = posted
          /\ papers' = posted_filter(papers, posted)
    /\ pc' = "frontier_filtered"
    /\ UNCHANGED <<triaged, top_papers, sourceVars, triageVars, probeVars>>
    /\ UNCHANGED runVars

\* lines 230-267: step 9, scores, ITP flag, selection, and the no-papers
\* branch
FrontierSelect ==
    /\ pc = "frontier_filtered"
    /\ papers' = frontier_score_all(papers)
    /\ top_papers' = frontier_select(papers')
    /\ pc' = IF top_papers' = <<>> THEN "frontier_no_papers"
                                   ELSE "frontier_selected"
    /\ UNCHANGED <<triaged, posted_pmids, sourceVars, triageVars, probeVars>>
    /\ UNCHANGED runVars

NextFrontier == FrontierFilterPosted \/ FrontierSelect

SpecFrontier == InitFrontier /\ [][NextFrontier]_vars

(***************************************************************************)
(* The persistent log (utils/notion_logger.py) and the Slack posting        *)
(* functions (utils/slack_poster.py), on the outcomes of their requests     *)
(***************************************************************************)

\* one request sent to an external service
Call(service, op, key, ok) ==
    [service |-> service, op |-> op, key |-> key, ok |-> ok]

\* notion_logger.get_notion_client and get_database_id return, not raise
notion_configured(environ) ==
    "NOTION_API_KEY" \in environ /\ "NOTION_DATABASE_ID" \in environ

\* slack_poster.get_webhook_url returns, not raises
slack_configured(environ) == "SLACK_WEBHOOK_URL" \in environ

\* `pmid or ""`
OrEmpty(v) == IF Truthy(v) THEN v ELSE <<>>

\* a slip in check_duplicate: a failed query counts as "already there"
check_duplicate_fail_closed(db, pmid, query_ok) ==
    IF ~Truthy(pmid) THEN FALSE
    ELSE IF ~query_ok THEN TRUE
    ELSE \E r \in 1..Len(db) : db[r].pmid = pmid

\* notion_logger.check_duplicate: no query for an empty pmid; a query that
\* raises answers False; a query that returns answers whether a page with
\* this PMID exists
check_duplicate(db, pmid, query_ok) ==
    IF ~Truthy(pmid) THEN FALSE
    ELSE IF ~query_ok THEN FALSE
    ELSE \E r \in 1..Len(db) : db[r].pmid = pmid

\* notion_logger.log_paper: pages.create adds a page whose Date Added is
\* today (age 0 days), or raises and is caught; the database afterwards
log_paper(db, paper, create_ok) ==
    IF create_ok
    THEN Append(db, [pmid |-> OrEmpty(Get(paper, "pmid", <<>>)), age |-> 0])
    ELSE db

\* log_papers_deduplicated, lines 216-256: the loop from paper i on; each
\* outcome says whether the duplicate query returns and whether the page
\* creation succeeds
RECURSIVE log_loop(_, _, _, _, _)
log_loop(db, ps, i, outcomes, calls) ==
    IF i > Len(ps) THEN [log |-> db, calls |-> calls]
    ELSE LET pmid    == Get(ps[i], "pmid", <<>>)
             queried == IF Truthy(pmid)
                        THEN <<Call("notion", "query", pmid,
                                    outcomes[i].query_ok)>>
                        ELSE <<>>
         IN  IF check_duplicate(db, pmid, outcomes[i].query_ok)
             THEN log_loop(db, ps, i + 1, outcomes, calls \o queried)
             ELSE log_loop(log_paper(db, ps[i], outcomes[i].create_ok),
                           ps, i + 1, outcomes,
                           calls \o queried \o
                               <<Call("notion", "create", OrEmpty(pmid),
                                      outcomes[i].create_ok)>>)

\* notion_logger.log_papers_deduplicated: raises ValueError before any
\* request when a Notion variable is not set
log_papers_deduplicated(environ, db, ps, outcomes) ==
    IF ~notion_configured(environ)
    THEN [raises |-> TRUE, log |-> db, calls |-> <<>>]
    ELSE [raises |-> FALSE,
          log    |-> log_loop(db, ps, 1, outcomes, <<>>).log,
          calls  |-> log_loop(db, ps, 1, outcomes, <<>>).calls]

\* a slip in get_posted_pmids: the cutoff is left out of the query
get_posted_pmids_no_cutoff(environ, db, days_back, query_ok) ==
    IF ~notion_configured(environ) THEN {}
    ELSE IF ~query_ok THEN {}
    ELSE {db[r].pmid : r \in {q \in 1..Len(db) : Truthy(db[q].pmid)}}

\* notion_logger.get_posted_pmids: the PMIDs of the pages added on or after
\* the cutoff date; the empty set when the client cannot be built or the
\* query raises
get_posted_pmids(environ, db, days_back, query_ok) ==
    IF ~notion_configured(environ) THEN {}
    ELSE IF ~query_ok THEN {}
    ELSE {db[r].pmid : r \in {q \in 1..Len(db) :
                                 db[q].age <= days_back /\ Truthy(db[q].pmid)}}

\* the requests get_posted_pmids sends
get_posted_pmids_calls(environ, query_ok) ==
    IF notion_configured(environ)
    THEN <<Call("notion", "query_since", <<>>, query_ok)>>
    ELSE <<>>

\* one call of a posting function with the webhook set (post_digest_header,
\* post_single_paper, post_no_papers_message, post_error): requests.post
\* succeeds, or raises a RequestException and the function returns False
Post(fn, key, ok) ==
    [fn |-> fn, key |-> key, outcome |-> IF ok THEN "ok" ELSE "failed"]

\* a call of a posting function that raised ValueError in get_webhook_url,
\* or TypeError on its arguments, before any request
PostRaised(fn) == [fn |-> fn, key |-> <<>>, outcome |-> "raised"]

\* post_digest_multi, lines 609-632, with the webhook set: the header, then
\* one message per paper, whatever failed before; oks[1] is the header's
\* outcome, oks[k + 1] the k-th paper's
\* a slip in the loop of post_digest_multi: it breaks at the first message
\* that is refused
post_digest_multi_stops_at_failure(ps, oks) ==
    IF ps = <<>> THEN [posts |-> <<>>, success |-> FALSE]
    ELSE LET all == <<Post("post_digest_header", <<>>, oks[1])>> \o
                    [k \in 1..Len(ps) |->
                        Post("post_single_paper",
                             OrEmpty(Get(ps[k], "pmid", <<>>)), oks[k + 1])]
             refused == {k \in 1..Len(all) : ~oks[k]}
             sent == IF refused = {} THEN Len(all)
                     ELSE CHOOSE k \in refused : \A j \in refused : k <= j
         IN  [posts   |-> SubSeq(all, 1, sent),
              success |-> refused = {}]

post_digest_multi(ps, oks) ==
    IF ps = <<>> THEN [posts |-> <<>>, success |-> FALSE]
    ELSE [posts   |-> <<Post("post_digest_header", <<>>, oks[1])>> \o
                      [k \in 1..Len(ps) |->
                          Post("post_single_paper",
                               OrEmpty(Get(ps[k], "pmid", <<>>)), oks[k + 1])],
          success |-> \A k \in 1..(Len(ps) + 1) : oks[k]]

\* post_frontier_digest, the frontier run's publisher, with the webhook set:
\* the documents whose identifier the log holds since the cutoff are left
\* out, then the header and one message per document are sent, whatever
\* failed before
post_frontier_digest(ps, posted, oks) ==
    LET fresh == posted_filter(ps, posted)
    IN  [posts   |-> <<Post("post_frontier_digest", <<>>, oks[1])>> \o
                     [k \in 1..Len(fresh) |->
                         Post("post_frontier_digest",
                              OrEmpty(Get(fresh[k], "pmid", <<>>)),
                              oks[k + 1])],
         success |-> \A k \in 1..(Len(fresh) + 1) : oks[k]]

(***************************************************************************)
(* The scoring stage and the summaries as functions of the run             *)
(***************************************************************************)

\* gemini_headless.get_genai_client returns, not raises
gemini_configured(environ) == "GEMINI_API_KEY" \in environ

\* gemini_headless.batch_triage_papers, lines 163-216: the batch loop from
\* batch b on, on the responses of the service
RECURSIVE batch_loop(_, _, _, _)
batch_loop(ps, b, batch_size, responses) ==
    IF b >= total_batches(Len(ps), batch_size) THEN ps
    ELSE LET start == b * batch_size
             end   == Min(start + batch_size, Len(ps))
         IN  batch_loop(handle_response(ps, start, end, responses[b + 1]).papers,
                        b + 1, batch_size, responses)

\* gemini_headless.batch_triage_papers after get_genai_client: the blacklist
\* filter, the initial scores, the batch loop, the whitelist boost
batch_triage_papers(ps, batch_size, whitelist, blacklist, responses) ==
    LET kept   == blacklist_filter(ps, blacklist)
        inited == [i \in 1..Len(kept) |-> init_scores(kept[i], whitelist)]
        scored == batch_loop(inited, 0, batch_size, responses)
    IN  [i \in 1..Len(scored) |-> whitelist_boost(scored[i])]

\* lines 163-183: the requests of the batch loop, one per batch of the
\* filtered list
triage_requests(ps, batch_size, blacklist, responses) ==
    LET kept == blacklist_filter(ps, blacklist)
    IN  [b \in 1..total_batches(Len(kept), batch_size) |->
            LlmCall("triage",
                    SubSeq(kept, (b - 1) * batch_size + 1,
                           Min(b * batch_size, Len(kept))),
                    responses[b].kind # "request_error")]

\* gemini_headless.py line 291
MIN_ABSTRACT_CHARS == 50

\* str.lstrip() on blanks
RECURSIVE LStrip(_)
LStrip(s) == IF s # <<>> /\ s[1] = " " THEN LStrip(Tail(s)) ELSE s

\* str.strip() on blanks
Strip(s) == Reverse(LStrip(Reverse(LStrip(s))))

\* summarize_paper, line 291: the abstract is long enough for a request
summary_wanted(paper) ==
    LET abstract == Get(paper, "abstract", <<>>)
    IN  Truthy(abstract) /\ Len(Strip(abstract)) >= MIN_ABSTRACT_CHARS

\* summarize_paper: which summary a paper gets, the service's or the fallback
summarize_paper(paper, environ, ok) ==
    IF ~summary_wanted(paper) THEN "fallback"
    ELSE IF ~gemini_configured(environ) THEN "fallback"
    ELSE IF ok THEN "appraisal" ELSE "fallback"

\* summarize_papers_batch: the same list, each paper with a summary
summarize_papers_batch(ps, environ, oks) ==
    [i \in 1..Len(ps) |->
        SetKey(ps[i], "summary", summarize_paper(ps[i], environ, oks[i]))]

\* the requests summarize_papers_batch sends from paper i on
RECURSIVE summary_requests(_, _, _, _)
summary_requests(ps, environ, oks, i) ==
    IF i > Len(ps) THEN <<>>
    ELSE (IF summary_wanted(ps[i]) /\ gemini_configured(environ)
          THEN <<LlmCall("summary", <<ps[i]>>, oks[i])>>
          ELSE <<>>) \o summary_requests(ps, environ, oks, i + 1)

\* generate_digest_summary: one request for the digest's overview, built
\* from the selected papers; it returns the text, or nothing when the
\* request failed
generate_digest_summary(ps, ok) == <<LlmCall("digest_summary", ps, ok)>>

(***************************************************************************)
(* SpecRun: one run of daily_digest.py, frontier_digest.py or rss_digest.py*)
(* after the runs that left the log and the seen-items file                *)
(***************************************************************************)

\* the most papers the PubMed search returns to a run
MaxRunPapers == 2

\* the most items the feeds return to an rss run
MaxRunItems == 2

\* the environment variables the runs read with no default
RequiredSecrets ==
    {"GEMINI_API_KEY", "SLACK_WEBHOOK_URL", "NOTION_API_KEY",
     "NOTION_DATABASE_ID"}

\* the environments of a run: every variable set, or all but one
RunEnvs == {RequiredSecrets} \cup {RequiredSecrets \ {v} : v \in RequiredSecrets}

\* notion_logger.get_posted_pmids' days_back: daily_digest.py line 142,
\* frontier_digest.py line 221
DAILY_POSTED_DAYS == 14
FRONTIER_POSTED_DAYS == 30

\* the log earlier runs left: empty, or one page for pmid 7 added 10, 20 or
\* 40 days ago
RunLogs ==
    {<<>>} \cup {<<[pmid |-> <<"7">>, age |-> a]>> : a \in {10, 20, 40}}

\* an abstract of MIN_ABSTRACT_CHARS characters
LongAbstract == [i \in 1..MIN_ABSTRACT_CHARS |-> "a"]

\* the records fetch_pubmed_details can return: an ITP paper by its title,
\* with a doi; a paper of a blacklisted author who is an ITP author too; a
\* paper that is neither, with an abstract long enough to be summarised
RunPapers ==
    {[pmid |-> <<"7">>, doi |-> DoiX, title |-> <<"I", "T", "P">>,
        abstract |-> <<"a">>, authors |-> <<"N", "g">>],
     [pmid |-> <<"8">>, doi |-> NoneVal, title |-> <<"a">>,
        abstract |-> <<"a">>,
        authors |-> <<"W", "u", " ", "B", ",", " ",
                      "s", "t", "r", "o", "n", "g", " ", "r">>],
     [pmid |-> <<"9">>, doi |-> NoneVal, title |-> <<"a">>,
        abstract |-> LongAbstract, authors |-> <<"N", "g">>]}

\* what the search and the fetch return: each record at most once
RunResults ==
    {l \in SeqsUpTo(RunPapers, MaxRunPapers) :
        \A i, j \in 1..Len(l) : i # j => l[i] # l[j]}

\* what the two preprint searches return together: nothing, or the preprint
\* of the paper with pmid 7
RunPreprints == {<<>>, <<format_preprint([doi |-> DoiX])>>}

\* what a lookup of the attention service comes back with in a run
RunReplies ==
    {[kind |-> "exception"],
     [kind |-> "response", status_code |-> 200,
      data |-> [score |-> 12, cited_by_tweeters_count |-> 3,
                cited_by_msm_count |-> 1]]}

\* what the request of one batch comes back with in a run: an error, or the
\* scores 9/5/5 for every index of a batch
RunResponses ==
    {[kind |-> "request_error"],
     [kind |-> "scores",
      scores |-> [k \in 1..BatchSize |->
                    [index |-> k - 1, relevance |-> 9, evidence |-> 5,
                     actionability |-> 5]]]}

\* how the logging of one paper goes: both requests succeed, the duplicate
\* query raises, or the page creation raises
LogOutcomes ==
    {[query_ok |-> TRUE, create_ok |-> TRUE],
     [query_ok |-> FALSE, create_ok |-> TRUE],
     [query_ok |-> TRUE, create_ok |-> FALSE]}

InitRun ==
    /\ pc = "run_start"
    /\ variant \in {"daily", "frontier", "rss"}
    /\ env \in RunEnvs
    /\ log \in (IF variant = "rss" THEN {<<>>} ELSE RunLogs)
    /\ seen_guids \in (IF variant = "rss" THEN {{}, {<<"g", "1">>}} ELSE {{}})
    /\ posts = <<>>
    /\ called = <<>>
    /\ raised_in = <<>>
    /\ result = "running"
    /\ PipelineIdle /\ SourceIdle /\ TriageIdle /\ ProbeIdle

\* daily_digest.py lines 66-107 and 113, frontier_digest.py lines 108-198:
\* the configuration, the PubMed search and fetch, and in the frontier run
\* the preprint searches and the duplicate filter; with nothing found the
\* run goes to its no-papers branch
RunSearch ==
    /\ pc = "run_start"
    /\ variant \in {"daily", "frontier"}
    /\ \/ /\ called' = called \o <<Call("pubmed", "esearch", <<>>, FALSE)>>
          /\ raised_in' = Append(raised_in, "search_pubmed")
          /\ pc' = "run_except"
          /\ UNCHANGED <<papers, sourceVars>>
       \/ \E found \in RunResults, preprints \in RunPreprints :
             /\ variant = "daily" => preprints = <<>>
             /\ called' = called
                   \o <<Call("pubmed", "esearch", <<>>, TRUE)>>
                   \o (IF found # <<>>
                       THEN <<Call("pubmed", "efetch", <<>>, TRUE)>>
                       ELSE <<>>)
                   \o (IF variant = "frontier"
                       THEN <<Call("biorxiv", "search", <<>>, TRUE)>>
                       ELSE <<>>)
             /\ pubmed_papers' = found
             /\ preprint_papers' = preprints
             /\ itp_preprints' = <<>>
             /\ all_papers' = found \o preprints
             /\ papers' = IF variant = "frontier" THEN Dedupe(all_papers')
                                                  ELSE found
             /\ pc' = IF papers' = <<>> THEN "run_no_papers" ELSE "run_fetched"
             /\ UNCHANGED raised_in
    /\ UNCHANGED <<triaged, posted_pmids, top_papers, triageVars, probeVars,
                   variant, env, log, seen_guids, posts, result>>

\* daily_digest.py line 122, frontier_digest.py line 204:
\* enrich_papers_with_altmetric
RunEnrich ==
    /\ pc = "run_fetched"
    /\ \E replies \in [1..Len(papers) -> RunReplies] :
          /\ papers' = enrich_papers_with_altmetric(papers, replies)
          /\ called' = called \o altmetric_requests(papers, replies)
          /\ IF \E i \in 1..Len(papers) :
                   get_altmetric_by_doi(Get(papers[i], "doi", NoneVal),
                                        replies[i]).raised
             THEN /\ raised_in' = Append(raised_in,
                                         "enrich_papers_with_altmetric")
                  /\ pc' = "run_except"
             ELSE /\ UNCHANGED raised_in
                  /\ pc' = "run_enriched"
    /\ UNCHANGED <<triaged, posted_pmids, top_papers, sourceVars, triageVars,
                   probeVars, variant, env, log, seen_guids, posts, result>>

\* daily_digest.py lines 128-133, frontier_digest.py lines 210-215:
\* batch_triage_papers, which raises ValueError in get_genai_client before
\* anything else when GEMINI_API_KEY is not set
RunTriage ==
    /\ pc = "run_enriched"
    /\ IF ~gemini_configured(env)
       THEN /\ raised_in' = Append(raised_in, "batch_triage_papers")
            /\ pc' = "run_except"
            /\ UNCHANGED <<papers, triaged, called, errors>>
       ELSE \E responses \in [1..total_batches(Len(papers), BatchSize)
                                 -> RunResponses] :
               /\ papers' = batch_triage_papers(papers, BatchSize,
                                TriageWhitelist, TriageBlacklist, responses)
               /\ triaged' = papers'
               /\ called' = called \o triage_requests(papers, BatchSize,
                                          TriageBlacklist, responses)
               /\ errors' = Cardinality({c \in 1..Len(called') :
                                /\ called'[c].service = "gemini"
                                /\ ~called'[c].ok})
               /\ pc' = "run_triaged"
               /\ UNCHANGED raised_in
    /\ UNCHANGED <<posted_pmids, top_papers, sourceVars, batch_idx, requests,
                   failed, assigned, pre_boost, module, probeVars, variant,
                   env, log, seen_guids, posts, result>>

\* daily_digest.py lines 142-149, frontier_digest.py lines 221-228:
\* get_posted_pmids and the posted filter
RunFilterPosted ==
    /\ pc = "run_triaged"
    /\ \E query_ok \in BOOLEAN :
          /\ posted_pmids' =
                get_posted_pmids(env, log,
                    IF variant = "daily" THEN DAILY_POSTED_DAYS
                                         ELSE FRONTIER_POSTED_DAYS,
                    query_ok)
          /\ called' = called \o get_posted_pmids_calls(env, query_ok)
    /\ papers' = posted_filter(papers, posted_pmids')
    /\ pc' = "run_filtered"
    /\ UNCHANGED <<triaged, top_papers, sourceVars, triageVars, probeVars,
                   variant, env, log, seen_guids, posts, raised_in, result>>

\* daily_digest.py lines 151-175, frontier_digest.py lines 230-267: the
\* selection, and with nothing selected the no-papers branch
RunSelect ==
    /\ pc = "run_filtered"
    /\ papers' = IF variant = "daily"
                 THEN list_sort_reverse(daily_score_all(papers),
                                        "combined_score")
                 ELSE frontier_score_all(papers)
    /\ top_papers' = IF variant = "daily" THEN daily_top(papers')
                                          ELSE frontier_select(papers')
    /\ pc' = IF top_papers' = <<>> THEN "run_no_papers" ELSE "run_selected"
    /\ UNCHANGED <<triaged, posted_pmids, sourceVars, triageVars, probeVars,
                   runVars>>

\* daily_digest.py lines 180-187, frontier_digest.py lines 273-279:
\* summarize_papers_batch and generate_digest_summary
RunSummarize ==
    /\ pc = "run_selected"
    /\ \E oks \in [1..Len(top_papers) -> BOOLEAN] :
          /\ top_papers' = summarize_papers_batch(top_papers, env, oks)
          /\ called' = called \o summary_requests(top_papers, env, oks, 1)
                              \o generate_digest_summary(top_papers', TRUE)
    /\ errors' = Cardinality({c \in 1..Len(called') :
                                /\ called'[c].service = "gemini"
                                /\ ~called'[c].ok})
    /\ pc' = "run_summarized"
    /\ UNCHANGED <<papers, triaged, posted_pmids, sourceVars, batch_idx,
                   requests, failed, assigned, pre_boost, module, probeVars,
                   variant, env, log, seen_guids, posts, raised_in, result>>

\* daily_digest.py lines 200-209: post_digest_multi, whose result is only
\* printed; frontier_digest.py lines 285-294: post_frontier_digest, the
\* same.  Without the webhook the first posting function raises ValueError.
RunPost ==
    /\ pc = "run_summarized"
    /\ IF ~slack_configured(env)
       THEN /\ posts' = Append(posts,
                           PostRaised(IF variant = "daily"
                                      THEN "post_digest_header"
                                      ELSE "post_frontier_digest"))
            /\ raised_in' = Append(raised_in,
                                   IF variant = "daily"
                                   THEN "post_digest_multi"
                                   ELSE "post_frontier_digest")
            /\ pc' = "run_except"
            /\ UNCHANGED called
       ELSE /\ \E oks \in [1..(Len(top_papers) + 1) -> BOOLEAN],
                  query_ok \in BOOLEAN :
                  IF variant = "daily"
                  THEN /\ query_ok
                       /\ posts' = posts \o post_digest_multi(top_papers,
                                                              oks).posts
                       /\ UNCHANGED called
                  ELSE /\ posts' = posts \o
                            post_frontier_digest(top_papers,
                                get_posted_pmids(env, log,
                                    FRONTIER_POSTED_DAYS, query_ok),
                                oks).posts
                       /\ called' = called \o
                                    get_posted_pmids_calls(env, query_ok)
            /\ pc' = "run_posted"
            /\ UNCHANGED raised_in
    /\ UNCHANGED <<pipelineVars, sourceVars, triageVars, probeVars, variant,
                   env, log, seen_guids, result>>

\* daily_digest.py lines 215-233, frontier_digest.py lines 298-322: the
\* logging inside its own try, whose except branch only prints, and the
\* return of True
RunLog ==
    /\ pc = "run_posted"
    /\ top_papers' = IF variant = "frontier"
                     THEN [i \in 1..Len(top_papers) |->
                             SetKey(top_papers[i], "digest_type", "frontier")]
                     ELSE top_papers
    /\ \E outcomes \in [1..Len(top_papers) -> LogOutcomes] :
          LET out == log_papers_deduplicated(env, log, top_papers', outcomes)
          IN  /\ log' = out.log
              /\ called' = called \o out.calls
              /\ raised_in' = IF out.raises
                              THEN Append(raised_in, "log_papers_deduplicated")
                              ELSE raised_in
    /\ result' = "True"
    /\ pc' = "run_done"
    /\ UNCHANGED <<papers, triaged, posted_pmids, sourceVars, triageVars,
                   probeVars, variant, env, seen_guids, posts>>

\* daily_digest.py lines 103-107 and 171-175: post_no_papers_message(DAYS_BACK)
\* and the return of True; frontier_digest.py lines 194-198 and 263-267:
\* post_no_papers_message(DAYS_BACK, digest_type="frontier"), a keyword the
\* function does not take, which raises TypeError before the function runs
RunNoPapers ==
    /\ pc = "run_no_papers"
    /\ IF variant = "frontier" \/ ~slack_configured(env)
       THEN /\ posts' = Append(posts, PostRaised("post_no_papers_message"))
            /\ raised_in' = Append(raised_in, "post_no_papers_message")
            /\ pc' = "run_except"
            /\ UNCHANGED result
       ELSE /\ \E ok \in BOOLEAN :
                  posts' = Append(posts,
                                  Post("post_no_papers_message", <<>>, ok))
            /\ result' = "True"
            /\ pc' = "run_done"
            /\ UNCHANGED raised_in
    /\ UNCHANGED <<pipelineVars, sourceVars, triageVars, probeVars, variant,
                   env, log, seen_guids, called>>

\* daily_digest.py lines 235-248, frontier_digest.py lines 324-337: the
\* top-level except branch: post_error inside its own try, and the return of
\* False
RunExcept ==
    /\ pc = "run_except"
    /\ IF ~slack_configured(env)
       THEN /\ posts' = Append(posts, PostRaised("post_error"))
            /\ raised_in' = Append(raised_in, "post_error")
       ELSE /\ \E ok \in BOOLEAN :
                  posts' = Append(posts, Post("post_error", <<>>, ok))
            /\ UNCHANGED raised_in
    /\ result' = "False"
    /\ pc' = "run_done"
    /\ UNCHANGED <<pipelineVars, sourceVars, triageVars, probeVars, variant,
                   env, log, seen_guids, called>>

\* rss_digest.py line 45
MAX_ITEMS_PER_POST == 15

\* the guids of the feed items
RunGuids == {<<"g", "1">>, <<"g", "2">>}

\* the guids saved by earlier runs that no feed returns any more
OldGuids(n) == {<<"o", i>> : i \in 1..n}

\* rss_digest.py line 73, the slice [-1000:]
MAX_SEEN_GUIDS == 1000

\* the guids one of which list(guids)[-1000:] leaves out when the set is one
\* too large: a set has no order, so any of them can come first in the
\* list; the old guids are interchangeable, and the least stands for them
first_in_list(guids) ==
    LET old == guids \ RunGuids
    IN  (guids \cap RunGuids) \cup
        (IF old = {} THEN {}
         ELSE {CHOOSE x \in old : \A y \in old : x[2] <= y[2]})

\* rss_digest.save_seen_items, lines 70-81: the sets of guids the file can
\* hold after the call; a write that fails is only printed as a warning and
\* leaves the file as it was
RECURSIVE last_guids(_)
last_guids(guids) ==
    IF Cardinality(guids) <= MAX_SEEN_GUIDS THEN {guids}
    ELSE UNION {last_guids(guids \ {x}) : x \in first_in_list(guids)}

save_seen_items(file, guids, write_ok) ==
    IF write_ok THEN last_guids(guids) ELSE {file}

\* rss_digest.run_rss_digest, lines 224-301, on the items the feeds return:
\* without items, or without new ones, True is returned and nothing is sent;
\* post_to_slack raises ValueError without the webhook, and the except
\* branch returns False and sends nothing
RunRss ==
    /\ pc = "run_start"
    /\ variant = "rss"
    /\ \E all_items \in {l \in SeqsUpTo([guid : RunGuids], MaxRunItems) :
                            \A i, j \in 1..Len(l) : i # j => l[i] # l[j]},
          ok \in BOOLEAN :
          LET new_items == KeepIdx(all_items,
                              {i \in 1..Len(all_items) :
                                  all_items[i].guid \notin seen_guids})
              items_to_post == Take(new_items, MAX_ITEMS_PER_POST)
          IN  /\ papers' = all_items
              /\ top_papers' = items_to_post
              /\ called' = Append(called, Call("feeds", "fetch", <<>>, TRUE))
              /\ IF all_items = <<>> \/ new_items = <<>>
                 THEN /\ result' = "True"
                      /\ UNCHANGED <<posts, raised_in, seen_guids>>
                 ELSE IF ~slack_configured(env)
                 THEN /\ posts' = Append(posts, PostRaised("post_to_slack"))
                      /\ raised_in' = Append(raised_in, "post_to_slack")
                      /\ result' = "False"
                      /\ UNCHANGED seen_guids
                 ELSE LET new_guids == {items_to_post[i].guid :
                                           i \in 1..Len(items_to_post)}
                      IN  /\ posts' = Append(posts,
                                SetKey(Post("post_to_slack", <<>>, ok),
                                       "guids", new_guids))
                          /\ \E write_ok \in BOOLEAN :
                                seen_guids' \in
                                   (IF ok
                                    THEN save_seen_items(seen_guids,
                                            seen_guids \cup new_guids,
                                            write_ok)
                                    ELSE {seen_guids})
                          /\ result' = IF ok THEN "True" ELSE "False"
                          /\ UNCHANGED raised_in
    /\ pc' = "run_done"
    /\ UNCHANGED <<triaged, posted_pmids, sourceVars, triageVars, probeVars,
                   variant, env, log>>

NextRun ==
    \/ RunSearch \/ RunEnrich \/ RunTriage \/ RunFilterPosted \/ RunSelect
    \/ RunSummarize \/ RunPost \/ RunLog \/ RunNoPapers \/ RunExcept
    \/ RunRss

SpecRun == InitRun /\ [][NextRun]_vars

(***************************************************************************)
(* The query builder (utils/query_builder.py)                              *)
(***************************************************************************)

\* query_builder.py lines 11-14
BASE_AGING_FILTER ==
    <<"(", "a", "g", "i", "n", "g", "[", "M", "e", "S", "H", "]", " ",
      "O", "R", " ", "\"", "h", "e", "a", "l", "t", "h", "y", " ", "a",
      "g", "i", "n", "g", "\"", "[", "t", "i", "a", "b", "]", " ", "O",
      "R", " ", "l", "o", "n", "g", "e", "v", "i", "t", "y", "[", "t",
      "i", "a", "b", "]", " ", "O", "R", " ", "h", "e", "a", "l", "t",
      "h", "s", "p", "a", "n", "[", "t", "i", "a", "b", "]", " ", "O",
      "R", " ", "\"", "b", "i", "o", "l", "o", "g", "i", "c", "a", "l",
      " ", "a", "g", "e", "\"", "[", "t", "i", "a", "b", "]", " ", "O",
      "R", " ", "l", "i", "f", "e", "s", "p", "a", "n", "[", "t", "i",
      "a", "b", "]", ")">>

\* str.join: the strings of parts from the i-th on, with sep between them
RECURSIVE JoinFrom(_, _, _)
JoinFrom(sep, parts, i) ==
    IF i > Len(parts) THEN <<>>
    ELSE IF i = Len(parts) THEN parts[i]
    ELSE parts[i] \o sep \o JoinFrom(sep, parts, i + 1)

\* sep.join(parts)
Join(sep, parts) == JoinFrom(sep, parts, 1)

\* line 44: the fragments of the topics whose query_fragment is truthy
topic_fragments(topics) ==
    LET kept == KeepIdx(topics, {i \in 1..Len(topics) :
                            Truthy(Get(topics[i], "query_fragment", NoneVal))})
    IN  [i \in 1..Len(kept) |-> kept[i]["query_fragment"]]

\* line 50: " OR ".join(f"({frag})" for frag in topic_fragments)
topics_query(fragments) ==
    Join(<<" ", "O", "R", " ">>,
         [i \in 1..Len(fragments) |-> <<"(">> \o fragments[i] \o <<")">>])

\* line 60: " ".join(f'NOT {term}[tiab]' for term in exclusions if term)
exclusion_clauses(exclusions) ==
    LET terms == KeepIdx(exclusions,
                         {i \in 1..Len(exclusions) : Truthy(exclusions[i])})
    IN  Join(<<" ">>,
             [i \in 1..Len(terms) |->
                <<"N", "O", "T", " ">> \o terms[i]
                    \o <<"[", "t", "i", "a", "b", "]">>])

\* a slip in build_pubmed_query: the topics with an empty fragment are kept
build_pubmed_query_keeps_empty(topics, exclusions, include_base_filter) ==
    IF topics = <<>>
    THEN IF include_base_filter THEN BASE_AGING_FILTER ELSE <<>>
    ELSE LET frags == [i \in 1..Len(topics) |->
                         IF Truthy(Get(topics[i], "query_fragment", NoneVal))
                         THEN topics[i]["query_fragment"] ELSE <<>>]
             main  == IF include_base_filter
                      THEN BASE_AGING_FILTER \o <<" ", "A", "N", "D", " ", "(">>
                               \o topics_query(frags) \o <<")">>
                      ELSE <<"(">> \o topics_query(frags) \o <<")">>
         IN  IF exclusions # <<>>
             THEN main \o <<" ">> \o exclusion_clauses(exclusions)
             ELSE main

\* query_builder.build_pubmed_query
build_pubmed_query(topics, exclusions, include_base_filter) ==
    IF topics = <<>>
    THEN IF include_base_filter THEN BASE_AGING_FILTER ELSE <<>>
    ELSE IF topic_fragments(topics) = <<>>
    THEN IF include_base_filter THEN BASE_AGING_FILTER ELSE <<>>
    ELSE LET main == IF include_base_filter
                     THEN BASE_AGING_FILTER \o <<" ", "A", "N", "D", " ", "(">>
                              \o topics_query(topic_fragments(topics))
                              \o <<")">>
                     ELSE <<"(">> \o topics_query(topic_fragments(topics))
                              \o <<")">>
         IN  IF exclusions # <<>>
             THEN main \o <<" ">> \o exclusion_clauses(exclusions)
             ELSE main

\* str.count(ch) for a one-character ch
Count(s, ch) == Cardinality({i \in 1..Len(s) : s[i] = ch})

\* query_builder.py line 259
MAX_QUERY_CHARS == 4000

\* query_builder.validate_query; the warnings are named by their kind
validate_query(query) ==
    LET warnings ==
            (IF Count(query, "(") # Count(query, ")")
             THEN <<"parentheses">> ELSE <<>>)
            \o (IF Strip(query) = <<>> THEN <<"empty">> ELSE <<>>)
            \o (IF Len(query) > MAX_QUERY_CHARS THEN <<"long">> ELSE <<>>)
    IN  [valid      |-> Len(warnings) = 0,
         warnings   |-> warnings,
         char_count |-> Len(query)]

(***************************************************************************)
(* SpecQuery: one call of build_pubmed_query                               *)
(***************************************************************************)

\* the most topics, and the most exclusion terms, of a call
MaxTopics == 3
MaxExclusions == 2

\* the topic dicts of the configuration: with a fragment, with an empty
\* fragment, with fragment None, and without the key
QueryTopics ==
    {[name |-> "A", query_fragment |-> <<"p", "[", "t", "i", "a", "b", "]">>],
     [name |-> "B", query_fragment |-> <<"q">>],
     [name |-> "C", query_fragment |-> <<>>],
     [name |-> "D", query_fragment |-> NoneVal],
     [name |-> "E"]}

\* the exclusion terms: two terms and the empty string
QueryExclusions == {<<"x">>, <<"y", "z">>, <<>>}

InitQuery ==
    /\ pc = "query_start"
    /\ probe \in [topics              : SeqsUpTo(QueryTopics, MaxTopics),
                  exclusions          : SeqsUpTo(QueryExclusions, MaxExclusions),
                  include_base_filter : BOOLEAN]
    /\ probe_out = <<>>
    /\ PipelineIdle /\ SourceIdle /\ TriageIdle /\ RunIdle

\* build_pubmed_query, lines 17-63, on probe
BuildPubmedQuery ==
    /\ pc = "query_start"
    /\ probe_out' = build_pubmed_query(probe.topics, probe.exclusions,
                                       probe.include_base_filter)
    /\ pc' = "query_built"
    /\ UNCHANGED <<probe, pipelineVars, sourceVars, triageVars, runVars>>

NextQuery == BuildPubmedQuery

SpecQuery == InitQuery /\ [][NextQuery]_vars

(***************************************************************************)
(* SpecValidate: one call of validate_query                                *)
(***************************************************************************)

\* the longest query handed to validate_query
MaxQueryLen == 4

\* the characters of the queries
QueryChars == {"(", ")", "a", " "}

InitValidate ==
    /\ pc = "validate_start"
    /\ probe \in SeqsUpTo(QueryChars, MaxQueryLen)
    /\ probe_out = <<>>
    /\ PipelineIdle /\ SourceIdle /\ TriageIdle /\ RunIdle

\* validate_query, lines 238-266, on probe
ValidateQuery ==
    /\ pc = "validate_start"
    /\ probe_out' = validate_query(probe)
    /\ pc' = "validated"
    /\ UNCHANGED <<probe, pipelineVars, sourceVars, triageVars, runVars>>

NextValidate == ValidateQuery

SpecValidate == InitValidate /\ [][NextValidate]_vars

(***************************************************************************)
(* Claims about the combination step (SpecCombine)                         *)
(***************************************************************************)

\* the combination step has run
Combined == pc \in {"combined", "no_papers"}

\* the positions in all_papers of the papers that were retained
RetainedPos == {papers[i].pos : i \in 1..Len(papers)}

\* two papers carry the same non-empty doi or the same non-empty pmid
SharesId(p, q) ==
    \/ Truthy(p.doi) /\ p.doi = q.doi
    \/ Truthy(p.pmid) /\ p.pmid = q.pmid

\* the positions of the papers whose key k holds v
Carriers(k, v) == {i \in 1..Len(all_papers) : all_papers[i][k] = v}

\* C4 as stated: of the papers that share a non-empty doi, or a non-empty
\* pmid, exactly the one that comes first in all_papers is retained.
C4_FirstCarrierRetained ==
    Combined =>
        \A k \in {"doi", "pmid"} : \A j \in 1..Len(all_papers) :
            LET v == all_papers[j][k]
                first == CHOOSE i \in Carriers(k, v) :
                             \A h \in Carriers(k, v) : i <= h
            IN  (Truthy(v) /\ Cardinality(Carriers(k, v)) >= 2) =>
                    Carriers(k, v) \cap RetainedPos = {first}

\* C4, amended: no two retained papers share a non-empty doi or a non-empty
\* pmid; the retained papers are papers of all_papers in their input order;
\* a paper is dropped only if an earlier retained paper shares its non-empty
\* doi or pmid; and the first paper of the input is always retained.
C4_DedupeRetainsFirstSeen ==
    Combined =>
        /\ \A i, j \in 1..Len(papers) :
              i < j => /\ ~SharesId(papers[i], papers[j])
                       /\ papers[i].pos < papers[j].pos
        /\ \A i \in 1..Len(papers) :
              /\ papers[i].pos \in 1..Len(all_papers)
              /\ papers[i] = all_papers[papers[i].pos]
        /\ \A j \in 1..Len(all_papers) :
              j \notin RetainedPos =>
                  \E i \in RetainedPos :
                      i < j /\ SharesId(all_papers[i], all_papers[j])
        /\ all_papers # <<>> => 1 \in RetainedPos

\* C4's case: a paper dropped as a duplicate of an earlier one, while a later
\* paper that shares an identifier with the dropped one is retained
C4_Witness ==
    /\ Combined
    /\ \E j, k \in 1..Len(all_papers) :
          /\ j < k
          /\ SharesId(all_papers[j], all_papers[k])
          /\ j \notin RetainedPos
          /\ k \in RetainedPos

\* C5 as stated: a paper without a doi is never dropped as a duplicate of
\* another paper without a doi. It is dropped only when an earlier retained
\* PubMed record has the same non-empty pmid as this PubMed record; a
\* preprint without a doi is always retained.
C5_DoiLessNeverDuplicates ==
    Combined =>
        \A j \in 1..Len(all_papers) :
            (~Truthy(all_papers[j].doi) /\ j \notin RetainedPos) =>
                \E i \in RetainedPos :
                    /\ i < j
                    /\ Get(all_papers[i], "source", <<>>) = "PubMed"
                    /\ Get(all_papers[j], "source", <<>>) = "PubMed"
                    /\ Truthy(all_papers[j].pmid)
                    /\ all_papers[i].pmid = all_papers[j].pmid

(***************************************************************************)
(* Claims about the scoring functions (SpecScore)                          *)
(***************************************************************************)

\* C2: calculate_combined_score returns relevance + evidence + actionability
\* when all three scores are >= 0, and exactly 0 when any of them is negative
\* or absent; it is never negative, and the daily and the frontier module's
\* functions return the same value.
C2_CombinedScore ==
    pc = "probed" =>
        LET present(k) == k \in DOMAIN probe /\ probe[k] >= 0
            scored == /\ present("triage_score")
                      /\ present("evidence_score")
                      /\ present("actionability_score")
        IN  /\ scored => probe_out.daily = probe["triage_score"]
                            + probe["evidence_score"]
                            + probe["actionability_score"]
            /\ ~scored => probe_out.daily = 0
            /\ probe_out.daily >= 0
            /\ probe_out.frontier = probe_out.daily

\* C2's case: a paper without an evidence score, the other two at 10, scores 0
C2_Witness ==
    /\ pc = "probed"
    /\ "evidence_score" \notin DOMAIN probe
    /\ Get(probe, "triage_score", -1) = 10
    /\ Get(probe, "actionability_score", -1) = 10
    /\ probe_out.daily = 0

\* C6: calculate_frontier_combined_score returns
\* relevance + 0.5*evidence + 0.5*actionability + 1.5*frontier truncated toward
\* zero (6, 5, 5, 8 give 23) and 0 whenever relevance < 0, so a paper with
\* relevance < 0 never reaches the minimum frontier-weighted score.
C6_FrontierCombinedScore ==
    pc = "probed" =>
        LET rel      == Get(probe, "triage_score", 0)
            evid     == Get(probe, "evidence_score", 0)
            action   == Get(probe, "actionability_score", 0)
            frontier == Get(probe, "frontier_score", 0)
            twice    == 2 * rel + evid + action + 3 * frontier
            w        == probe_out.weighted
        IN  /\ rel < 0 => w = 0 /\ ~(w >= FRONTIER_MIN_COMBINED_SCORE)
            /\ rel >= 0 /\ twice >= 0 => 2 * w <= twice /\ twice < 2 * w + 2
            /\ rel >= 0 /\ twice < 0 => 2 * w >= twice /\ twice > 2 * w - 2
            /\ (rel = 6 /\ evid = 5 /\ action = 5 /\ frontier = 8) => w = 23

\* C6's case: the spec's scenario, scores 6, 5, 5, 8 weighted to 23
C6_Witness ==
    /\ pc = "probed"
    /\ Get(probe, "triage_score", 0) = 6
    /\ Get(probe, "evidence_score", 0) = 5
    /\ Get(probe, "actionability_score", 0) = 5
    /\ Get(probe, "frontier_score", 0) = 8
    /\ probe_out.weighted = 23

(***************************************************************************)
(* Claims about the scoring stage (SpecTriage)                             *)
(***************************************************************************)

\* the batch loop is over
BatchesDone == pc \in {"triage_boost", "triaged"}

\* the index of the batch that holds papers[i]
BatchOf(i) == (i - 1) \div BatchSize

\* the three scores of a paper
ScoresOf(paper) ==
    [relevance     |-> paper["triage_score"],
     evidence      |-> paper["evidence_score"],
     actionability |-> paper["actionability_score"]]

Sentinels == [relevance |-> -1, evidence |-> -1, actionability |-> -1]

\* C7 as stated: the scoring stage stores a frontier score in 0..10 on every
\* paper it scored successfully (a paper of a batch that did not fail and
\* whose response assigned it a relevance >= 0), the score the frontier
\* selection reads with p.get("frontier_score", 0) >= MIN_FRONTIER_SCORE.
C7_FrontierScoreStored ==
    pc = "triaged" =>
        \A i \in 1..Len(triaged) :
            (BatchOf(i) \notin failed /\ pre_boost[i] >= 0) =>
                /\ "frontier_score" \in DOMAIN triaged[i]
                /\ triaged[i]["frontier_score"] \in 0..10

\* C8 as stated: when a failure is counted for a batch, every paper of that
\* batch ends the scoring stage with relevance = evidence = actionability = -1.
C8_FailedBatchKeepsSentinels ==
    pc = "triaged" =>
        \A i \in 1..Len(triaged) :
            BatchOf(i) \in failed => ScoresOf(triaged[i]) = Sentinels

\* C9: a failed batch changes no score of another batch and does not end the
\* loop: every batch is requested exactly once, in order, whatever failed
\* before it; when the loop is over each paper of a batch that did not fail
\* carries exactly the scores its own response assigns (the relevance of a
\* returned paper up to the whitelist boost); papers of batches not yet
\* requested still carry the sentinels; and the errors counter of
\* gemini_headless has grown by one per failed batch.
C9_FailedBatchIndependent ==
    pc \in {"triage_batch", "triage_boost", "triaged"} =>
        /\ \A b \in 1..Len(requests) :
              requests[b] = IF b <= batch_idx THEN 1 ELSE 0
        /\ BatchesDone => batch_idx = Len(requests)
        /\ failed \subseteq 0..(batch_idx - 1)
        /\ module = "gemini_headless" => errors = Cardinality(failed)
        /\ \A i \in 1..Len(papers) :
              LET b      == BatchOf(i)
                  own    == assigned[b + 1][i - b * BatchSize]
                  scores == ScoresOf(papers[i])
              IN  /\ b >= batch_idx => scores = Sentinels
                  /\ (b < batch_idx /\ b \notin failed) =>
                        /\ scores.evidence = own.evidence
                        /\ scores.actionability = own.actionability
                        /\ pc # "triaged" => scores.relevance = own.relevance
                        /\ pc = "triaged" =>
                              /\ pre_boost[i] = own.relevance
                              /\ scores.relevance \in
                                    {own.relevance, own.relevance + 2, 10}

\* C9's case: the first batch failed, the second was still requested once and
\* its paper carries the scores of its own response; one error was counted
C9_Witness ==
    /\ pc = "triaged"
    /\ module = "gemini_headless"
    /\ failed = {0}
    /\ errors = 1
    /\ Len(requests) = 2 /\ requests[2] = 1
    /\ Len(papers) > BatchSize
    /\ ScoresOf(papers[BatchSize + 1]) =
          [relevance |-> 9, evidence |-> 5, actionability |-> 5]

\* C10: in one pass the boost adds 2 to a paper's relevance at most once, and
\* only when the paper is whitelisted and its relevance is >= 0 (the sentinel
\* -1 is never boosted); a whitelisted paper with relevance >= 0 gets the
\* full +2 when that stays within 10 and never ends above 10. This holds for
\* gemini_headless and for gemini_helpers.
C10_WhitelistBoostOnceCapped ==
    pc = "triaged" =>
        \A i \in 1..Len(triaged) :
            LET pre   == pre_boost[i]
                post  == triaged[i]["triage_score"]
                boost == triaged[i]["whitelisted"] /\ pre >= 0
            IN  /\ post - pre <= 2
                /\ post # pre => boost
                /\ boost => /\ post <= 10
                            /\ pre + 2 <= 10 => post = pre + 2
                /\ pre = -1 => post = -1

\* C10's case: a whitelisted paper scored 9 is boosted to 10, not to 11
C10_Witness ==
    /\ pc = "triaged"
    /\ \E i \in 1..Len(triaged) :
          /\ triaged[i]["whitelisted"]
          /\ pre_boost[i] = 9
          /\ triaged[i]["triage_score"] = 10

(***************************************************************************)
(* Claims about the daily selection (SpecDaily)                            *)
(***************************************************************************)

DailyDone == pc \in {"daily_selected", "daily_no_papers"}

\* the combined score of the paper the scoring stage returned at position i
DailyScore(i) == daily_calculate_combined_score(triaged[i])

\* the positions of the returned papers that are not posted and reach the
\* minimum combined score
DailyEligible ==
    {i \in 1..Len(triaged) :
        /\ triaged[i].pmid \notin posted_pmids
        /\ DailyScore(i) >= DAILY_MIN_COMBINED_SCORE}

\* the number of eligible papers that come before paper i: a higher score,
\* or the same score and an earlier input position
DailyRank(i) ==
    Cardinality({j \in DailyEligible :
                    \/ DailyScore(j) > DailyScore(i)
                    \/ DailyScore(j) = DailyScore(i) /\ j < i})

\* the spec's order of steps: score, posted filter, threshold, sort, truncate
DailySpecOrder ==
    LET scored   == daily_score_all(triaged)
        unposted == KeepIdx(scored, {i \in 1..Len(scored) :
                                        scored[i].pmid \notin posted_pmids})
        passing  == KeepIdx(unposted, {i \in 1..Len(unposted) :
                        unposted[i]["combined_score"] >= DAILY_MIN_COMBINED_SCORE})
    IN  Take(list_sort_reverse(passing, "combined_score"), DAILY_TOP_N_PAPERS)

\* C1: the list the daily run hands on is the reference list: the returned
\* papers whose pmid is not posted and whose combined score is >= 15, by
\* combined score descending, equal scores in input order, cut to the first
\* 5; and the code's order of steps gives the list of the spec's order.
C1_DailyListIsReference ==
    DailyDone =>
        /\ Len(top_papers) = Min(DAILY_TOP_N_PAPERS, Cardinality(DailyEligible))
        /\ \A k \in 1..Len(top_papers) :
              /\ top_papers[k].pos \in DailyEligible
              /\ DailyRank(top_papers[k].pos) = k - 1
              /\ top_papers[k] = SetKey(triaged[top_papers[k].pos],
                                    "combined_score",
                                    DailyScore(top_papers[k].pos))
        /\ top_papers = DailySpecOrder

\* C1's case: six returned papers are eligible, two of the five selected tie
\* and keep their input order, a higher score has moved ahead of a lower one
\* that came earlier, and the sixth is cut
C1_Witness ==
    /\ pc = "daily_selected"
    /\ Cardinality(DailyEligible) > DAILY_TOP_N_PAPERS
    /\ Len(top_papers) = DAILY_TOP_N_PAPERS
    /\ \E a, b \in 1..Len(top_papers) :
          /\ a < b
          /\ top_papers[a]["combined_score"] = top_papers[b]["combined_score"]
          /\ top_papers[a].pos < top_papers[b].pos
    /\ \E a, b \in 1..Len(top_papers) :
          /\ a < b
          /\ top_papers[a]["combined_score"] > top_papers[b]["combined_score"]
          /\ top_papers[a].pos > top_papers[b].pos

(***************************************************************************)
(* Claims about the frontier selection (SpecFrontier)                      *)
(***************************************************************************)

FrontierDone == pc \in {"frontier_selected", "frontier_no_papers"}

\* the input positions of the papers of the selected list
SelectedPos == {top_papers[k].pos : k \in 1..Len(top_papers)}

\* the indices of the ITP papers of a list
ItpIn(ps) == {i \in 1..Len(ps) : is_itp_paper(ps[i])}

C19_DedupeIdempotent ==
    pc = "deduped" => probe_out.twice = probe_out.once

\* C19's case: the filter dropped a paper of a three-paper input and kept
\* two, and the second application keeps the same two
C19_Witness ==
    /\ pc = "deduped"
    /\ Len(probe) = 3
    /\ Len(probe_out.once) = 2
    /\ probe_out.twice = probe_out.once

(***************************************************************************)
(* Claims about the attention enrichment (SpecEnrich)                      *)
(***************************************************************************)

\* the paper without its attention record
WithoutAltmetric(paper) ==
    [k \in DOMAIN paper \ {"altmetric"} |-> paper[k]]

\* C20: enrich_papers_with_altmetric returns without raising, whatever the
\* lookups do; the returned list holds the papers it was given, in the same
\* order, each with an attention record; a paper without a doi has the zero
\* record and no lookup was requested for it; a lookup that raised or was
\* answered with a status other than 200 gives the zero record; one lookup
\* is requested for each paper with a doi.
C20_EnrichNeverRaises ==
    pc # "enrich_start" =>
        /\ pc = "enriched"
        /\ raised_in = <<>>
        /\ Len(papers) = Len(probe)
        /\ \A i \in 1..Len(papers) :
              LET doi      == Get(probe[i], "doi", NoneVal)
                  lookups  == {c \in 1..Len(called) : called[c].pos = i}
              IN  /\ WithoutAltmetric(papers[i]) = probe[i]
                  /\ "altmetric" \in DOMAIN papers[i]
                  /\ DOMAIN papers[i]["altmetric"] = {"score", "twitter", "news"}
                  /\ ~Truthy(doi) =>
                        /\ papers[i]["altmetric"] = altmetric_default
                        /\ lookups = {}
                  /\ Truthy(doi) => Cardinality(lookups) = 1
                  /\ (\/ probe_out[i].kind = "exception"
                      \/ probe_out[i].status_code # 200) =>
                        papers[i]["altmetric"] = altmetric_default

\* C20's case: of three papers the first has no doi and gets the zero record
\* without a lookup, the second's lookup raised, the third's was answered
C20_Witness ==
    /\ pc = "enriched"
    /\ Len(papers) = 3
    /\ ~Truthy(Get(probe[1], "doi", NoneVal))
    /\ papers[1]["altmetric"] = altmetric_default
    /\ Truthy(Get(probe[2], "doi", NoneVal))
    /\ probe_out[2].kind = "exception"
    /\ papers[2]["altmetric"] = altmetric_default
    /\ papers[3]["altmetric"].score = 12
    /\ Len(called) = 2

(***************************************************************************)
(* Claims about a whole run (SpecRun)                                      *)
(***************************************************************************)

\* the author string holds a blacklist entry, whatever the case of either
Blacklisted(paper) ==
    \E a \in 1..Len(TriageBlacklist) :
        Contains(Lower(Get(paper, "authors", <<>>)), Lower(TriageBlacklist[a]))

\* the pmids of the blacklisted papers the sources returned to this run
BlacklistedPmids ==
    {all_papers[i].pmid :
        i \in {j \in 1..Len(all_papers) : Blacklisted(all_papers[j])}}

\* the positions of the run at which `papers` is the scoring stage's list
AfterTriage ==
    {"run_triaged", "run_filtered", "run_selected", "run_summarized",
     "run_posted"}

\* C11: the list batch_triage_papers returns holds no paper whose author
\* string contains a blacklist entry, compared case-insensitively; no prompt
\* of a request to the language model is built from such a paper; and such
\* a paper is in no later list of the run, in no posted message and in no
\* page the run adds to the log, an ITP author's paper included.
C11_BlacklistedNeverSurface ==
    variant # "rss" =>
        /\ \A i \in 1..Len(triaged) : ~Blacklisted(triaged[i])
        /\ pc \in AfterTriage =>
              \A i \in 1..Len(papers) : ~Blacklisted(papers[i])
        /\ \A i \in 1..Len(top_papers) : ~Blacklisted(top_papers[i])
        /\ \A c \in 1..Len(called) :
              called[c].service = "gemini" =>
                 \A k \in 1..Len(called[c].batch) :
                    ~Blacklisted(called[c].batch[k])
        /\ \A m \in 1..Len(posts) : posts[m].key \notin BlacklistedPmids
        /\ \A r \in 1..Len(log) :
              log[r].age = 0 => log[r].pmid \notin BlacklistedPmids

\* C11's case: a frontier run whose search returned the paper of a
\* blacklisted author who is an ITP author too, and another ITP paper; the
\* run scored, selected, posted and logged the other paper
C11_Witness ==
    /\ variant = "frontier"
    /\ pc = "run_done"
    /\ result = "True"
    /\ \E i \in 1..Len(all_papers) :
          Blacklisted(all_papers[i]) /\ is_itp_paper(all_papers[i])
    /\ \E c \in 1..Len(called) :
          called[c].service = "gemini" /\ called[c].op = "triage"
    /\ Len(top_papers) = 1
    /\ \E m \in 1..Len(posts) :
          posts[m].key = <<"7">> /\ posts[m].outcome = "ok"
    /\ \E r \in 1..Len(log) : log[r].age = 0

\* C12 as stated: whatever the runs did, the log holds at most one page per
\* pmid, because log_papers_deduplicated creates a page only for a paper
\* whose pmid is on no page of the log.
C12_OneRecordPerPmid ==
    \A r1, r2 \in 1..Len(log) :
        r1 # r2 => log[r1].pmid # log[r2].pmid

\* the days_back this run hands to get_posted_pmids
PostedDays ==
    IF variant = "daily" THEN DAILY_POSTED_DAYS ELSE FRONTIER_POSTED_DAYS

\* the messages of the run that announce one paper
PaperPosts == {m \in 1..Len(posts) : posts[m].key # <<>>}

\* C13 as stated: a paper whose pmid earlier runs logged on a date inside the
\* run's lookback window (14 days in the daily run, 30 in the frontier run)
\* is not posted by this run, the check being made at selection time and
\* again at publish time.
C13_LoggedInWindowNeverPosted ==
    variant # "rss" =>
        \A m \in PaperPosts :
            ~\E r \in 1..Len(log) :
                /\ log[r].pmid = posts[m].key
                /\ log[r].age > 0
                /\ log[r].age <= PostedDays

\* the requests of the run to create a page of the log
CreateCalls ==
    {c \in 1..Len(called) :
        called[c].service = "notion" /\ called[c].op = "create"}

\* C14 as stated: when the posting of a message or the writing of a paper to
\* the log fails, the rest of the batch is still attempted (one message per
\* selected paper after the header) and the failure is surfaced: the run
\* returns False, so that the process exits with a non-zero code.
C14_PublishFailureSurfaced ==
    (variant = "daily" /\ pc = "run_done" /\ PaperPosts # {}) =>
        /\ Cardinality(PaperPosts) = Len(top_papers)
        /\ (\/ \E m \in 1..Len(posts) : posts[m].outcome = "failed"
            \/ \E c \in CreateCalls : ~called[c].ok)
              => result = "False"

\* the run ended without a selection although the search, the enrichment
\* and the scoring stage returned: nothing was found, or nothing cleared
\* the threshold
NothingToPublish ==
    /\ variant # "rss"
    /\ pc = "run_done"
    /\ top_papers = <<>>
    /\ \A k \in 1..Len(raised_in) :
          raised_in[k] \notin {"search_pubmed", "enrich_papers_with_altmetric",
                               "batch_triage_papers"}

\* C15 as stated: when the search returns nothing, or nothing clears the
\* threshold, the daily run and the frontier run each send the no-papers
\* notification, post no digest, write nothing to the log and return
\* success.  The runs considered have every required variable set.
C15_NoPapersNotifiesAndSucceeds ==
    (NothingToPublish /\ env = RequiredSecrets) =>
        /\ Len(posts) = 1
        /\ posts[1].fn = "post_no_papers_message"
        /\ posts[1].outcome # "raised"
        /\ CreateCalls = {}
        /\ result = "True"

\* C16 as stated: every run that ended, of every variant (daily, frontier,
\* rss), has sent or tried to send one of the three messages: the digest,
\* the no-items notification or the error notification.
C16_NeverSilent ==
    pc = "run_done" => posts # <<>>

\* the run sent a request to an external service or to the webhook
NetworkUsed ==
    \/ called # <<>>
    \/ \E m \in 1..Len(posts) : posts[m].outcome # "raised"

\* C17 as stated: when one of GEMINI_API_KEY, SLACK_WEBHOOK_URL,
\* NOTION_API_KEY and NOTION_DATABASE_ID is not set, the run fails with a
\* configuration error before any network call.
C17_MissingSecretFailsBeforeNetwork ==
    (variant # "rss" /\ env # RequiredSecrets) =>
        /\ ~NetworkUsed
        /\ pc = "run_done" => result = "False"

\* the steps of the run that raised, the error notification aside
StepsRaised == {k \in 1..Len(raised_in) : raised_in[k] # "post_error"}

\* C18 as stated: run_daily_digest and run_frontier_digest let no exception
\* out; an exception of any step is caught by the top-level driver, which
\* tries exactly one error notification and returns False; True is returned
\* only when no step raised.
C18_TrueOnlyWhenNoStepRaised ==
    (variant # "rss" /\ pc = "run_done") =>
        /\ result \in {"True", "False"}
        /\ StepsRaised # {} =>
              /\ result = "False"
              /\ Cardinality({m \in 1..Len(posts) :
                                 posts[m].fn = "post_error"}) = 1
        /\ result = "True" => StepsRaised = {}

(***************************************************************************)
(* Claims about the query builder (SpecQuery, SpecValidate)                *)
(***************************************************************************)

\* the non-empty fragments of the topics handed to build_pubmed_query
NonEmptyFragments ==
    {probe.topics[i]["query_fragment"] :
        i \in {j \in 1..Len(probe.topics) :
                  /\ "query_fragment" \in DOMAIN probe.topics[j]
                  /\ probe.topics[j]["query_fragment"] \notin {<<>>, NoneVal}}}

\* C21 as stated: for all topic lists, the empty one included, and all
\* exclusion lists, the returned string contains every non-empty topic
\* fragment and, for every non-empty exclusion term t, the clause
\* "NOT t[tiab]".
C21_QueryHoldsFragmentsAndExclusions ==
    pc = "query_built" =>
        /\ \A f \in NonEmptyFragments : Contains(probe_out, f)
        /\ \A e \in 1..Len(probe.exclusions) :
              probe.exclusions[e] # <<>> =>
                 Contains(probe_out,
                          <<"N", "O", "T", " ">> \o probe.exclusions[e]
                              \o <<"[", "t", "i", "a", "b", "]">>)

\* the OR-union of the parenthesized fragments of the topics from the i-th
\* on, an empty or missing fragment being passed over
RECURSIVE OrUnionFrom(_, _)
OrUnionFrom(i, first) ==
    IF i > Len(probe.topics) THEN <<>>
    ELSE IF Get(probe.topics[i], "query_fragment", <<>>) \in {<<>>, NoneVal}
    THEN OrUnionFrom(i + 1, first)
    ELSE (IF first THEN <<>> ELSE <<" ", "O", "R", " ">>)
            \o <<"(">> \o probe.topics[i]["query_fragment"] \o <<")">>
            \o OrUnionFrom(i + 1, FALSE)

Depth(s, n) ==
    Cardinality({i \in 1..n : s[i] = "("})
        - Cardinality({i \in 1..n : s[i] = ")"})

\* every ")" has an earlier unmatched "(", and every "(" is closed
Balanced(s) ==
    /\ \A n \in 0..Len(s) : Depth(s, n) >= 0
    /\ Depth(s, Len(s)) = 0

\* C23 as stated: for every query whose parentheses are unbalanced,
\* validate_query returns valid = false with a parentheses warning; valid is
\* true exactly when the warnings list is empty, and char_count is the
\* query's length.
C23_UnbalancedIsInvalid ==
    pc = "validated" =>
        /\ ~Balanced(probe) =>
              /\ ~probe_out.valid
              /\ \E w \in 1..Len(probe_out.warnings) :
                    probe_out.warnings[w] = "parentheses"
        /\ probe_out.valid <=> probe_out.warnings = <<>>
        /\ probe_out.char_count = Len(probe)

(***************************************************************************)
(* SpecPost: one call of post_digest_multi                                 *)
(***************************************************************************)

\* the most papers handed to post_digest_multi
MaxPost == 3

\* the lists of papers handed to post_digest_multi, in rank order
PostPapers ==
    SeqsUpTo({[pmid |-> <<"7">>], [pmid |-> <<"8">>], [pmid |-> <<"9">>]},
             MaxPost)

InitPost ==
    /\ pc = "post_start"
    /\ variant = "daily"
    /\ env \in {{}, {"SLACK_WEBHOOK_URL"}}
    /\ top_papers \in PostPapers
    /\ papers = <<>>
    /\ triaged = <<>>
    /\ posted_pmids = {}
    /\ log = <<>>
    /\ seen_guids = {}
    /\ posts = <<>>
    /\ called = <<>>
    /\ raised_in = <<>>
    /\ result = "running"
    /\ SourceIdle /\ TriageIdle /\ ProbeIdle

\* slack_poster.post_digest_multi, lines 591-632: the early return on an
\* empty list, the header, then the loop over the papers; get_webhook_url
\* (lines 53-58) raises ValueError inside post_digest_header when the
\* webhook is not set, and the call ends there without a return value
PostDigestMulti ==
    /\ pc = "post_start"
    /\ IF top_papers = <<>>
       THEN /\ result' = "False"
            /\ UNCHANGED <<posts, raised_in>>
       ELSE IF ~slack_configured(env)
       THEN /\ posts' = <<PostRaised("post_digest_header")>>
            /\ raised_in' = <<"post_digest_multi">>
            /\ UNCHANGED result
       ELSE \E oks \in [1..(Len(top_papers) + 1) -> BOOLEAN] :
               LET out == post_digest_multi(top_papers, oks)
               IN  /\ posts' = out.posts
                   /\ result' = IF out.success THEN "True" ELSE "False"
                   /\ UNCHANGED raised_in
    /\ pc' = "post_returned"
    /\ UNCHANGED <<papers, triaged, posted_pmids, top_papers, sourceVars,
                   triageVars, probeVars, variant, env, log, seen_guids,
                   called>>

NextPost == PostDigestMulti

SpecPost == InitPost /\ [][NextPost]_vars

(***************************************************************************)
(* SpecRss: the scheduled runs of run_rss_digest, one after the other      *)
(***************************************************************************)

\* the most runs of the rss digest
MaxRssRuns == 2

\* the runs of the rss digest started so far
RssRuns ==
    Cardinality({c \in 1..Len(called) : called[c].service = "feeds"})

InitRss ==
    /\ pc = "run_start"
    /\ variant = "rss"
    /\ env \in {{}, {"SLACK_WEBHOOK_URL"}}
    /\ seen_guids \in {{}, OldGuids(MAX_SEEN_GUIDS - 1)}
    /\ log = <<>>
    /\ posts = <<>>
    /\ called = <<>>
    /\ raised_in = <<>>
    /\ result = "running"
    /\ PipelineIdle /\ SourceIdle /\ TriageIdle /\ ProbeIdle

\* the schedule starts run_rss_digest again: a new process, which finds the
\* file of seen guids as the last run left it
RssSchedule ==
    /\ pc = "run_done"
    /\ variant = "rss"
    /\ RssRuns < MaxRssRuns
    /\ pc' = "run_start"
    /\ result' = "running"
    /\ papers' = <<>>
    /\ top_papers' = <<>>
    /\ UNCHANGED <<triaged, posted_pmids, sourceVars, triageVars, probeVars,
                   variant, env, log, seen_guids, posts, called, raised_in>>

NextRss == RunRss \/ RssSchedule

SpecRss == InitRss /\ [][NextRss]_vars

(***************************************************************************)
(* Claims about the batch loop (SpecApply)                                 *)
(***************************************************************************)

\* the positions, in the list handed in, of the papers the blacklist keeps
KeptPositions == {i \in 1..Len(probe) : ~Blacklisted(probe[i])}

\* the three scores stored on paper g of the filtered list
StoredScores(g) ==
    [relevance     |-> papers[g]["triage_score"],
     evidence      |-> papers[g]["evidence_score"],
     actionability |-> papers[g]["actionability_score"]]

\* the scores paper g must carry once request b has been answered: those of
\* the score object naming its place k in the batch, the sentinels when the
\* request failed or no object names that place
ScoresOwed(b, k) ==
    LET response == called[b]["response"]
    IN  IF response.kind = "scores"
           /\ \E o \in 1..Len(response.scores) :
                 response.scores[o].index = k - 1
        THEN [relevance |-> 6 + (k - 1), evidence |-> 5, actionability |-> 4]
        ELSE Sentinels

\* C24: a score object with index i is applied to exactly the paper at
\* position i of the batch whose prompt was built, that is global position
\* batchStart + i, and to no other paper; an object whose index is outside
\* the batch changes nothing; every paper the blacklist filter keeps is in
\* exactly one batch, the batches are contiguous and of batch_size papers
\* except possibly the last.
C24_IndexAppliesWithinItsBatch ==
    pc \in {"triage_batch", "triage_boost", "triaged"} =>
        /\ Len(papers) = Cardinality(KeptPositions)
        /\ \A b \in 1..Len(called) :
              LET start == (b - 1) * BatchSize
                  batch == called[b]["batch"]
              IN  /\ Len(batch) = Min(BatchSize, Len(papers) - start)
                  /\ Len(batch) >= 1
                  /\ \A k \in 1..Len(batch) :
                        /\ batch[k]["pos"] = papers[start + k]["pos"]
                        /\ StoredScores(start + k) = ScoresOwed(b, k)
        /\ \A g \in 1..Len(papers) :
              g > Len(called) * BatchSize => StoredScores(g) = Sentinels
        /\ pc # "triage_batch" =>
              Len(called) = total_batches(Len(papers), BatchSize)

\* a blacklisted paper was dropped, the first batch got an object for its
\* first place and one whose index is the batch size, and the second batch
\* got an empty array
C24_Witness ==
    /\ pc = "triaged"
    /\ Len(probe) > Len(papers)
    /\ Len(called) = 2
    /\ called[1]["response"].kind = "scores"
    /\ Len(called[1]["response"].scores) = 2
    /\ called[1]["response"].scores[1].index = 0
    /\ called[1]["response"].scores[2].index = BatchSize
    /\ called[2]["response"] = [kind |-> "scores", scores |-> <<>>]
    /\ StoredScores(1).relevance = 6
    /\ StoredScores(BatchSize + 1) = Sentinels

(***************************************************************************)
(* Claims about the scale of the scores (SpecTriage)                       *)
(***************************************************************************)

\* the values a score may take: the sentinel or an integer of the scale
ScoreScale == {-1} \cup 0..10

\* C25 as stated: after batch_triage_papers returns, each of a paper's
\* relevance, evidence and actionability scores is the sentinel -1 or an
\* integer in 0..10, whatever numbers the response holds.
C25_ScoresOnScale ==
    pc = "triaged" =>
        \A i \in 1..Len(triaged) :
            /\ triaged[i]["triage_score"] \in ScoreScale
            /\ triaged[i]["evidence_score"] \in ScoreScale
            /\ triaged[i]["actionability_score"] \in ScoreScale

(***************************************************************************)
(* Claims about the sentinel in the frontier ranking key (SpecScore)       *)
(***************************************************************************)

CoreKeys == {"triage_score", "evidence_score", "actionability_score"}

\* the probe paper is one batch_triage_papers can return to the frontier
\* run: the three core scores are set, each the sentinel or on the scale,
\* and no frontier_score is stored
FromFrontierTriage ==
    /\ CoreKeys \subseteq DOMAIN probe
    /\ \A k \in CoreKeys : probe[k] \in ScoreScale
    /\ "frontier_score" \notin DOMAIN probe

\* the probe paper without the evidence and actionability keys that hold the
\* sentinel
WithoutSentinels ==
    [k \in {q \in DOMAIN probe :
              ~(q \in {"evidence_score", "actionability_score"}
                /\ probe[q] = -1)} |-> probe[k]]

\* C26 as stated: in frontier ranking a sentinel -1 in evidence or
\* actionability is never used as a number: the frontier-weighted score of
\* every paper reaching frontier selection is >= 0, and the ranking key of a
\* paper that is not fully scored is neither lowered nor raised by the -1.
C26_SentinelNotUsedAsNumber ==
    (pc = "probed" /\ FromFrontierTriage) =>
        /\ probe_out.weighted >= 0
        /\ probe_out.weighted =
              calculate_frontier_combined_score(WithoutSentinels)

(***************************************************************************)
(* Claims about what a run logs (SpecRun)                                  *)
(***************************************************************************)

\* the pmids this run wrote to the log: the pages created today
NewlyLogged == {log[r].pmid : r \in {q \in 1..Len(log) : log[q].age = 0}}

\* the pmids the log held before the run
AlreadyLogged == {log[r].pmid : r \in {q \in 1..Len(log) : log[q].age > 0}}

\* the pmids of the papers whose message the channel accepted
SuccessfullyPosted ==
    {posts[m].key : m \in {q \in PaperPosts : posts[q].outcome = "ok"}}

\* C27 as stated: at the end of a daily or frontier run the set of papers
\* the run newly wrote to the log equals the set of papers it successfully
\* posted that were not already in the log: a paper whose post failed is
\* not logged, and every posted paper is logged.
C27_LoggedEqualsPosted ==
    (variant # "rss" /\ pc = "run_done") =>
        NewlyLogged = SuccessfullyPosted \ AlreadyLogged

(***************************************************************************)
(* Claims about post_digest_multi (SpecPost)                               *)
(***************************************************************************)

\* C28: post_digest_multi posts the header first and then exactly one
\* message per paper in rank order 1..n; a refused message does not stop the
\* remaining ones; it returns True exactly when the header and every paper
\* message succeeded, and for an empty list it returns False without posting
\* anything.  A call returns unless the webhook is not set and the list is
\* not empty; then get_webhook_url raises before any message is sent.
C28_HeaderThenEveryPaper ==
    pc = "post_returned" =>
        IF top_papers = <<>>
        THEN posts = <<>> /\ result = "False"
        ELSE IF raised_in # <<>>
        THEN \A m \in 1..Len(posts) : posts[m].outcome = "raised"
        ELSE /\ Len(posts) = Len(top_papers) + 1
             /\ posts[1].fn = "post_digest_header"
             /\ \A k \in 1..Len(top_papers) :
                   /\ posts[k + 1].fn = "post_single_paper"
                   /\ posts[k + 1].key = top_papers[k].pmid
             /\ result \in {"True", "False"}
             /\ result = "True" <=>
                   \A m \in 1..Len(posts) : posts[m].outcome = "ok"

\* the first paper's message was refused and the second paper's message was
\* still sent and accepted
C28_Witness ==
    /\ pc = "post_returned"
    /\ Len(top_papers) >= 2
    /\ Len(posts) = Len(top_papers) + 1
    /\ posts[1].outcome = "ok"
    /\ posts[2].outcome = "failed"
    /\ posts[3].outcome = "ok"
    /\ result = "False"

(***************************************************************************)
(* Claims about the runs of the rss digest (SpecRss)                       *)
(***************************************************************************)

\* the messages of the rss runs that Slack accepted
RssPosted == {m \in 1..Len(posts) : posts[m].outcome = "ok"}

\* C29 as stated: across any sequence of rss runs an item posted in one run
\* is never posted again by a later run, and the file of seen guids never
\* holds more than 1000 guids.
C29_PostedGuidNeverPostedAgain ==
    /\ \A m \in RssPosted :
          \A n \in (m + 1)..Len(posts) :
              posts[n].outcome = "raised"
                  \/ posts[m]["guids"] \cap posts[n]["guids"] = {}
    /\ Cardinality(seen_guids) <= MAX_SEEN_GUIDS

(***************************************************************************)
(* Claims about the combined score of the log (SpecScore)                  *)
(***************************************************************************)

\* each core score of the probe paper is missing, the sentinel or on the
\* scale
CoreScoresOnScale ==
    \A k \in CoreKeys : k \in DOMAIN probe => probe[k] \in ScoreScale

\* C30 as stated: the combined score log_paper computes equals the
\* selection's combined_score for the same paper for every combination of
\* the three scores (the sum when all three are >= 0, otherwise 0, which is
\* written as blank), and is never negative.
C30_LoggedCombinedIsSelectors ==
    (pc = "probed" /\ CoreScoresOnScale) =>
        /\ probe_out.logged = probe_out.daily
        /\ probe_out.logged >= 0
        /\ probe_out.written =
              IF probe_out.daily > 0 THEN probe_out.daily ELSE NoneVal

====
